---- MODULE Spec2Model ----
(***************************************************************************)
(* Verification model of the benchmark execution engine of                 *)
(* valkey-perf-benchmark (valkey_benchmark.py, class ClientRunner).        *)
(*                                                                         *)
(* Three specifications share this module:                                 *)
(*   Spec     the Run Controller and the Scenario Executor                 *)
(*            (run_benchmark_config and what it calls), one action per     *)
(*            executor phase, the parallel coordinator taken as one step;  *)
(*   SpecPar  the parallel coordinator (_run_parallel_search) step by      *)
(*            step: launches, client exits, joins, aggregation;            *)
(*   SpecAgg  the pure aggregation function _aggregate_parallel_results.   *)
(*                                                                         *)
(* Numbers are fixed-point integers (the unit is immaterial); a weighted   *)
(* latency is kept as the exact fraction num/den the code divides.         *)
(***************************************************************************)
EXTENDS Integers, Sequences, FiniteSets, TLC

(***************************************************************************)
(* Bounds of the model.                                                    *)
(***************************************************************************)
MaxUnits == 2
MaxNodes == 2
MaxParallelClients == 2
MaxCpuRanges == 2
MaxAggResults == 2
MaxCalls == 2
MaxLines == 3
MaxOptions == 2

(***************************************************************************)
(* Program constants.                                                      *)
(***************************************************************************)
MinLatencyDefault == 999999
DEFAULT_PORT == 6379

\* Python's None, where a value or None is returned.
NoText == ""

(***************************************************************************)
(* CSV cells, rows and the load generator's standard output.               *)
(* A cell is what row.get(name, default) meets: a numeric string, a        *)
(* non-numeric string, None (csv.DictReader's fill for a short row) or no  *)
(* such column in the header (row.get returns the default).                *)
(***************************************************************************)
Num(n) == [k |-> "num", v |-> n]
BadCell == [k |-> "bad", v |-> 0]
NoneCell == [k |-> "none", v |-> 0]
AbsentCell == [k |-> "absent", v |-> 0]

FieldNames ==
  <<"rps", "avg_latency_ms", "min_latency_ms", "p50_latency_ms",
    "p95_latency_ms", "p99_latency_ms", "max_latency_ms">>

MkRow(r, a, mn, p50, p95, p99, mx) ==
  [rps |-> r, avg_latency_ms |-> a, min_latency_ms |-> mn,
   p50_latency_ms |-> p50, p95_latency_ms |-> p95, p99_latency_ms |-> p99,
   max_latency_ms |-> mx]

AllCells(c) == MkRow(c, c, c, c, c, c, c)

\* Lines of a standard output.  A data line carries its decoded cells.
BlankLine == [kind |-> "blank", f |-> AllCells(NoneCell)]
TextLine == [kind |-> "text", f |-> AllCells(NoneCell)]
HeaderLine == [kind |-> "header", f |-> AllCells(BadCell)]
DataLine(row) == [kind |-> "data", f |-> row]

NoRow == [found |-> FALSE, f |-> AllCells(NoneCell)]
FoundRow(row) == [found |-> TRUE, f |-> row]

\* _find_csv_start: index of the first header line, 0 for None (1-based).
RECURSIVE FindFrom(_, _)
FindFrom(lines, i) ==
  IF i > Len(lines) THEN 0
  ELSE IF lines[i].kind = "header" THEN i
  ELSE FindFrom(lines, i + 1)

FindCsvStart(lines) == FindFrom(lines, 1)

\* csv.DictReader over lines[csv_start:]: the first line is the header, blank
\* lines are skipped, the first other line is the row returned.
RECURSIVE FirstRowFrom(_, _)
FirstRowFrom(lines, i) ==
  IF i > Len(lines) THEN NoRow
  ELSE IF lines[i].kind = "blank" THEN FirstRowFrom(lines, i + 1)
  ELSE FoundRow(lines[i].f)

ParseCsvRow(stdout) ==
  IF stdout = <<>> THEN NoRow
  ELSE LET csv_start == FindCsvStart(stdout)
       IN IF csv_start = 0 THEN NoRow
          ELSE FirstRowFrom(stdout, csv_start + 1)

(***************************************************************************)
(* _aggregate_parallel_results                                             *)
(***************************************************************************)
DefaultOf(name) == IF name = "min_latency_ms" THEN MinLatencyDefault ELSE 0

\* float(row.get(name, default))
FloatGet(row, name) ==
  LET c == row[name]
  IN CASE c.k = "num" -> [exc |-> NoText, v |-> c.v]
       [] c.k = "absent" -> [exc |-> NoText, v |-> DefaultOf(name)]
       [] c.k = "bad" -> [exc |-> "ValueError", v |-> 0]
       [] OTHER -> [exc |-> "TypeError", v |-> 0]

\* The exception of the first field, in the dict literal's order, whose
\* conversion raises; NoText when every field converts.
RECURSIVE FirstExc(_, _)
FirstExc(row, i) ==
  IF i > Len(FieldNames) THEN NoText
  ELSE IF FloatGet(row, FieldNames[i]).exc /= NoText
       THEN FloatGet(row, FieldNames[i]).exc
       ELSE FirstExc(row, i + 1)

RowMetrics(row, port) ==
  [rps |-> FloatGet(row, "rps").v,
   avg_latency_ms |-> FloatGet(row, "avg_latency_ms").v,
   min_latency_ms |-> FloatGet(row, "min_latency_ms").v,
   p50_latency_ms |-> FloatGet(row, "p50_latency_ms").v,
   p95_latency_ms |-> FloatGet(row, "p95_latency_ms").v,
   p99_latency_ms |-> FloatGet(row, "p99_latency_ms").v,
   max_latency_ms |-> FloatGet(row, "max_latency_ms").v,
   port |-> port]

\* The loop over results: rows that are missing or raise ValueError are
\* skipped; any other exception leaves the loop and the function.
RECURSIVE CollectMetrics(_, _)
CollectMetrics(results, n) ==
  IF n = 0 THEN [exc |-> NoText, list |-> <<>>]
  ELSE LET prev == CollectMetrics(results, n - 1)
           row == ParseCsvRow(results[n].stdout)
           exc == FirstExc(row.f, 1)
       IN IF prev.exc /= NoText THEN prev
          ELSE IF ~row.found THEN prev
          ELSE IF exc = "ValueError" THEN prev
          ELSE IF exc /= NoText THEN [exc |-> exc, list |-> prev.list]
          ELSE [exc |-> NoText,
                list |-> Append(prev.list, RowMetrics(row.f, results[n].port))]

RECURSIVE SumRps(_, _)
SumRps(ml, n) == IF n = 0 THEN 0 ELSE SumRps(ml, n - 1) + ml[n].rps

RECURSIVE SumWeighted(_, _, _)
SumWeighted(ml, name, n) ==
  IF n = 0 THEN 0
  ELSE SumWeighted(ml, name, n - 1) + ml[n].rps * ml[n][name]

\* Mutant of MinOf: the last node's value, with no comparison.
MinOfLast(ml, name, n) == ml[n][name]

RECURSIVE MinOf(_, _, _)
MinOf(ml, name, n) ==
  IF n = 1 THEN ml[1][name]
  ELSE LET m == MinOf(ml, name, n - 1)
       IN IF ml[n][name] < m THEN ml[n][name] ELSE m

RECURSIVE MaxOf(_, _, _)
MaxOf(ml, name, n) ==
  IF n = 1 THEN ml[1][name]
  ELSE LET m == MaxOf(ml, name, n - 1)
       IN IF ml[n][name] > m THEN ml[n][name] ELSE m

Frac(n, d) == [num |-> n, den |-> d]

\* Mutant of WeightedLatency: the division without the total_rps > 0 guard.
WeightedLatencyUnguarded(ml, name, total_rps) ==
  Frac(SumWeighted(ml, name, Len(ml)), total_rps)

\* sum(rps_i * latency_i) / total_rps, or 0 when total_rps is not positive
WeightedLatency(ml, name, total_rps) ==
  IF total_rps > 0
  THEN Frac(SumWeighted(ml, name, Len(ml)), total_rps)
  ELSE Frac(0, 1)

NoAggregate ==
  [test |-> NoText, rps |-> 0, avg_latency_ms |-> Frac(0, 1),
   min_latency_ms |-> 0, p50_latency_ms |-> Frac(0, 1),
   p95_latency_ms |-> Frac(0, 1), p99_latency_ms |-> Frac(0, 1),
   max_latency_ms |-> 0]

Aggregated(ml, command) ==
  LET total_rps == SumRps(ml, Len(ml))
  IN [test |-> command,
      rps |-> total_rps,
      avg_latency_ms |-> WeightedLatency(ml, "avg_latency_ms", total_rps),
      min_latency_ms |-> MinOf(ml, "min_latency_ms", Len(ml)),
      p50_latency_ms |-> WeightedLatency(ml, "p50_latency_ms", total_rps),
      p95_latency_ms |-> WeightedLatency(ml, "p95_latency_ms", total_rps),
      p99_latency_ms |-> WeightedLatency(ml, "p99_latency_ms", total_rps),
      max_latency_ms |-> MaxOf(ml, "max_latency_ms", Len(ml))]

ErrNoValidMetrics == "No valid metrics parsed from parallel results"
ErrFloatNone ==
  "float() argument must be a string or a real number, not 'NoneType'"

\* Result of a call: the exception text it raises (NoText for a normal
\* return) and the value it returns.
AggregateParallelResults(results, scenario) ==
  LET c == CollectMetrics(results, Len(results))
  IN IF c.exc /= NoText
     THEN [raised |-> ErrFloatNone, row |-> NoAggregate]
     ELSE IF c.list = <<>>
     THEN [raised |-> ErrNoValidMetrics, row |-> NoAggregate]
     ELSE [raised |-> NoText, row |-> Aggregated(c.list, scenario.command)]

(***************************************************************************)
(* State.                                                                  *)
(***************************************************************************)
VARIABLES
  agg_pc,        \* SpecAgg: "call" before, "done" after the call
  agg_results,   \* SpecAgg: the (stdout, port) list handed to the aggregator
  agg_ret,       \* SpecAgg: what the call raised or returned
  par_pc,        \* SpecPar: position inside _run_parallel_search
  par_scenario,  \* SpecPar: the scenario argument
  par_ports,     \* SpecPar: the ports argument
  par_cpus,      \* SpecPar: the client_cpu_ranges argument
  par_plan,      \* SpecPar: zip(port_assignments, cpu_assignments)
  processes,     \* SpecPar: the launched client processes, in launch order
  par_joined,    \* SpecPar: how many processes communicate() has returned for
  par_results,   \* SpecPar: the (stdout, port) list of the zero exits
  par_ret,       \* SpecPar: what the call raised or returned
  run_pc,        \* Spec: position inside run_benchmark_config
  runner,        \* Spec: the ClientRunner's fields and configuration
  metrics_processor, \* Spec: the metrics sink was constructed
  profiler,      \* Spec: the profiler was constructed
  unit_count,    \* Spec: units the iterator has yielded so far
  metric_json,   \* Spec: the records collected so far
  written,       \* Spec: the batches handed to write_metrics, in order
  run_raised,    \* Spec: text of the exception that left the run, if any
  last,          \* Spec: what happened in the unit executed last
  fn_pc,         \* SpecFn: "call" until the function was applied twice
  fn_call,       \* SpecFn: the function called and its arguments
  fn_rets,       \* SpecFn: what the calls returned, in order
  it_pc,         \* SpecIter: "iterate" until the generator is exhausted
  it_pos,        \* SpecIter: where the generator is suspended
  it_yielded,    \* SpecIter: the units yielded so far, in order
  exp_pc,        \* SpecExpand: position of the caller
  exp_heap,      \* SpecExpand: the objects, by address
  exp_in,        \* SpecExpand: the scenario passed and its value at the call
  exp_ret,       \* SpecExpand: the list returned, as addresses
  unit_pc,       \* SpecUnit: the step the executor is at
  unit_in,       \* SpecUnit: the scenario executed and its group
  unit_local,    \* SpecUnit: the executor's local variables
  unit_trace,    \* SpecUnit: the steps executed so far, in order
  unit_out,      \* SpecUnit: how the executor's call ended
  sink_pc,       \* SpecSink: position of the sink's caller
  metrics_file,  \* SpecSink: the content of metrics.json
  sink_last      \* SpecSink: the write made last

aggVars == <<agg_pc, agg_results, agg_ret>>
runVars ==
  <<run_pc, runner, metrics_processor, profiler, unit_count, metric_json,
    written, run_raised, last>>
parVars ==
  <<par_pc, par_scenario, par_ports, par_cpus, par_plan, processes,
    par_joined, par_results, par_ret>>

NoReturn == [raised |-> NoText, row |-> NoAggregate]

fnVars == <<fn_pc, fn_call, fn_rets>>
iterVars == <<it_pc, it_pos, it_yielded>>
expVars == <<exp_pc, exp_heap, exp_in, exp_ret>>
unitVars == <<unit_pc, unit_in, unit_local, unit_trace, unit_out>>
sinkVars == <<sink_pc, metrics_file, sink_last>>
moreVars == <<unitVars, sinkVars>>
extVars == <<fnVars, iterVars, expVars, moreVars>>

vars == <<aggVars, parVars, runVars, extVars>>

\* The parts of the state a specification does not use stay idle.
AggIdle == agg_pc = "idle" /\ agg_results = <<>> /\ agg_ret = NoReturn

RunIdle ==
  /\ run_pc = "idle" /\ runner = <<>> /\ metrics_processor = FALSE
  /\ profiler = FALSE /\ unit_count = 0 /\ metric_json = <<>>
  /\ written = <<>> /\ run_raised = NoText /\ last = <<>>

\* The run's variables idle, but for the runner's fields, which the runner's
\* pure methods read.
RunnerOnly(r) ==
  /\ run_pc = "idle" /\ runner = r /\ metrics_processor = FALSE
  /\ profiler = FALSE /\ unit_count = 0 /\ metric_json = <<>>
  /\ written = <<>> /\ run_raised = NoText /\ last = <<>>

FnIdle == fn_pc = "idle" /\ fn_call = <<>> /\ fn_rets = <<>>
IterIdle == it_pc = "idle" /\ it_pos = <<>> /\ it_yielded = <<>>
ExpIdle ==
  exp_pc = "idle" /\ exp_heap = <<>> /\ exp_in = <<>> /\ exp_ret = <<>>
UnitIdle ==
  /\ unit_pc = "idle" /\ unit_in = <<>> /\ unit_local = <<>>
  /\ unit_trace = <<>> /\ unit_out = <<>>
SinkIdle == sink_pc = "idle" /\ metrics_file = <<>> /\ sink_last = <<>>
MoreIdle == UnitIdle /\ SinkIdle
ExtIdle == FnIdle /\ IterIdle /\ ExpIdle /\ MoreIdle

ParIdle ==
  /\ par_pc = "idle"
  /\ par_scenario = [command |-> NoText, parallel_clients |-> 0]
  /\ par_ports = <<>> /\ par_cpus = <<>> /\ par_plan = <<>>
  /\ processes = <<>> /\ par_joined = 0 /\ par_results = <<>>
  /\ par_ret = NoReturn

(***************************************************************************)
(* SpecAgg: _aggregate_parallel_results applied to bounded inputs.         *)
(***************************************************************************)
\* Rows a load generator prints: rps, latencies, the minimum column
\* possibly missing from the header.
AggRows ==
  UNION { { MkRow(Num(r), Num(a), mn, Num(a + 1), Num(a + 3), Num(a + 4),
                  Num(11 - a)) : r \in {0, 1, 3}, mn \in {Num(a - 1), AbsentCell} } :
            a \in {2, 4} }

SampleRow == MkRow(Num(3), Num(2), Num(1), Num(3), Num(5), Num(6), Num(7))
OtherRow == MkRow(Num(1), Num(4), Num(3), Num(5), Num(7), Num(8), Num(5))
BadRpsRow == MkRow(BadCell, Num(2), Num(1), Num(3), Num(5), Num(6), Num(7))
BadThenShortRow == MkRow(Num(3), BadCell, NoneCell, NoneCell, NoneCell,
                         NoneCell, NoneCell)
ShortRow == MkRow(Num(3), Num(2), NoneCell, NoneCell, NoneCell, NoneCell,
                  NoneCell)

\* Outputs without a usable row, or whose row does not convert.
BrokenStdouts ==
  { <<>>, <<TextLine>>, <<HeaderLine>>, <<HeaderLine, BlankLine>>,
    <<HeaderLine, TextLine>>, <<HeaderLine, DataLine(ShortRow)>>,
    <<HeaderLine, DataLine(BadRpsRow)>>,
    <<HeaderLine, DataLine(BadThenShortRow)>> }

AggStdouts ==
  { <<HeaderLine, DataLine(row)>> : row \in AggRows }
    \cup { <<TextLine, HeaderLine, BlankLine, DataLine(SampleRow),
             DataLine(OtherRow)>> }
    \cup BrokenStdouts

ResultLists(stdouts, maxLen) ==
  UNION { { [i \in 1..n |-> [stdout |-> f[i], port |-> DEFAULT_PORT + i - 1]] :
              f \in [1..n -> stdouts] } : n \in 0..maxLen }

AggScenario == [command |-> "FT.SEARCH idx *"]

AggInit ==
  /\ agg_pc = "call"
  /\ agg_results \in ResultLists(AggStdouts, MaxAggResults)
  /\ agg_ret = NoReturn
  /\ ParIdle
  /\ RunIdle
  /\ ExtIdle

AggCall ==
  /\ agg_pc = "call"
  /\ agg_ret' = AggregateParallelResults(agg_results, AggScenario)
  /\ agg_pc' = "done"
  /\ UNCHANGED <<agg_results, parVars, runVars, extVars>>

AggNext == AggCall

(***************************************************************************)
(* _run_parallel_search                                                    *)
(***************************************************************************)
ErrAllFailed == "All parallel benchmarks failed"
ErrModuloByZero == "integer modulo by zero"
ErrLaunch == "[Errno 11] Resource temporarily unavailable"

Least(a, b) == IF a < b THEN a ELSE b

\* lst[i % len(lst)] for i in range(count), with 1-based positions
RoundRobin(lst, count) ==
  [i \in 1..count |-> lst[((i - 1) % Len(lst)) + 1]]

\* scenario.get("parallel_clients"): 0 stands for a missing or falsy value
PortAssignments(scenario, ports) ==
  IF scenario.parallel_clients > 0
  THEN RoundRobin(ports, scenario.parallel_clients)
  ELSE ports

\* Defined when the modulo of the round-robin is (see AssignmentRaises).
CpuAssignments(scenario, client_cpu_ranges) ==
  IF scenario.parallel_clients > 0
  THEN RoundRobin(client_cpu_ranges, scenario.parallel_clients)
  ELSE client_cpu_ranges

\* i % len(client_cpu_ranges) with an empty list of core ranges
AssignmentRaises(scenario, client_cpu_ranges) ==
  scenario.parallel_clients > 0 /\ client_cpu_ranges = <<>>

\* zip(port_assignments, cpu_assignments): as long as the shorter list
Zip(a, b) ==
  [i \in 1..Least(Len(a), Len(b)) |-> [port |-> a[i], cpu_range |-> b[i]]]

LaunchPlan(scenario, ports, client_cpu_ranges) ==
  Zip(PortAssignments(scenario, ports),
      CpuAssignments(scenario, client_cpu_ranges))

\* Mutant of JoinResult: the return code is not looked at.
JoinResultAnyExit(results, proc) ==
  Append(results, [stdout |-> proc.stdout, port |-> proc.port])

\* One turn of the join loop, after communicate() returned for proc.
JoinResult(results, proc) ==
  IF proc.returncode /= 0 THEN results
  ELSE Append(results, [stdout |-> proc.stdout, port |-> proc.port])

\* The end of the function, once the join loop is over.
FinishParallel(results, scenario) ==
  IF results = <<>> THEN [raised |-> ErrAllFailed, row |-> NoAggregate]
  ELSE AggregateParallelResults(results, scenario)

(***************************************************************************)
(* SpecPar: the coordinator step by step, with its client processes.       *)
(***************************************************************************)
SampleStdout == <<HeaderLine, DataLine(SampleRow)>>
OtherStdout == <<HeaderLine, DataLine(OtherRow)>>

\* What a client process can end with: (returncode, stdout).
ClientExits ==
  { [returncode |-> 1, stdout |-> <<>>],
    [returncode |-> 1, stdout |-> SampleStdout],
    [returncode |-> 0, stdout |-> <<TextLine>>],
    [returncode |-> 0, stdout |-> <<HeaderLine, TextLine>>],
    [returncode |-> 0, stdout |-> <<HeaderLine, DataLine(BadRpsRow)>>],
    [returncode |-> 0, stdout |-> SampleStdout],
    [returncode |-> 0, stdout |-> OtherStdout] }

Ports(n) == [i \in 1..n |-> DEFAULT_PORT + i - 1]
CpuRanges(n) == [i \in 1..n |-> i]

Running(port, cpu_range) ==
  [port |-> port, cpu_range |-> cpu_range, state |-> "running",
   returncode |-> 0, stdout |-> <<>>]

ParInit ==
  /\ par_pc = "assign"
  /\ par_scenario \in
       [command : {"FT.SEARCH idx *"}, parallel_clients : 0..MaxParallelClients]
  /\ par_ports \in {Ports(n) : n \in 1..MaxNodes}
  /\ par_cpus \in {CpuRanges(n) : n \in 0..MaxCpuRanges}
  /\ par_plan = <<>>
  /\ processes = <<>>
  /\ par_joined = 0
  /\ par_results = <<>>
  /\ par_ret = NoReturn
  /\ AggIdle
  /\ RunIdle
  /\ ExtIdle

\* Lines 978-994: the assignments; the modulo raises on an empty core list.
ParAssign ==
  /\ par_pc = "assign"
  /\ IF AssignmentRaises(par_scenario, par_cpus)
     THEN /\ par_pc' = "raised"
          /\ par_ret' = [raised |-> ErrModuloByZero, row |-> NoAggregate]
          /\ UNCHANGED par_plan
     ELSE /\ par_plan' = LaunchPlan(par_scenario, par_ports, par_cpus)
          /\ par_pc' = IF par_plan' = <<>> THEN "collected" ELSE "launch"
          /\ UNCHANGED par_ret
  /\ UNCHANGED <<par_scenario, par_ports, par_cpus, processes, par_joined,
                 par_results, aggVars, runVars, extVars>>

\* Lines 997-1017: one turn of the launch loop; Popen returns a running
\* process, or raises and the exception leaves the function.
ParLaunch ==
  /\ par_pc = "launch"
  /\ LET next == par_plan[Len(processes) + 1]
     IN \/ /\ processes' = Append(processes, Running(next.port, next.cpu_range))
           /\ par_pc' = IF Len(processes') = Len(par_plan) THEN "join"
                        ELSE "launch"
           /\ UNCHANGED par_ret
        \/ /\ par_pc' = "raised"
           /\ par_ret' = [raised |-> ErrLaunch, row |-> NoAggregate]
           /\ UNCHANGED processes
  /\ UNCHANGED <<par_scenario, par_ports, par_cpus, par_plan, par_joined,
                 par_results, aggVars, runVars, extVars>>

\* A client process ends, whatever the coordinator is doing.
ClientExit ==
  /\ \E i \in DOMAIN processes, e \in ClientExits :
       /\ processes[i].state = "running"
       /\ processes' =
            [processes EXCEPT ![i] =
               [@ EXCEPT !.state = "exited", !.returncode = e.returncode,
                         !.stdout = e.stdout]]
  /\ UNCHANGED <<par_pc, par_scenario, par_ports, par_cpus, par_plan,
                 par_joined, par_results, par_ret, aggVars, runVars, extVars>>

\* Lines 1021-1027: one turn of the join loop; communicate() returns when the
\* process has ended.
ParJoin ==
  /\ par_pc = "join"
  /\ LET proc == processes[par_joined + 1]
     IN /\ proc.state = "exited"
        /\ par_results' = JoinResult(par_results, proc)
  /\ par_joined' = par_joined + 1
  /\ par_pc' = IF par_joined' = Len(processes) THEN "collected" ELSE "join"
  /\ UNCHANGED <<par_scenario, par_ports, par_cpus, par_plan, processes,
                 par_ret, aggVars, runVars, extVars>>

\* Lines 1029-1033: fail on no result, else aggregate and return.
ParFinish ==
  /\ par_pc = "collected"
  /\ par_ret' = FinishParallel(par_results, par_scenario)
  /\ par_pc' = IF par_ret'.raised = NoText THEN "returned" ELSE "raised"
  /\ UNCHANGED <<par_scenario, par_ports, par_cpus, par_plan, processes,
                 par_joined, par_results, aggVars, runVars, extVars>>

ParNext == ParAssign \/ ParLaunch \/ ClientExit \/ ParJoin \/ ParFinish

(***************************************************************************)
(* The Scenario Executor and the Run Controller.                           *)
(* A call of an executor is one step; the environment decides which of    *)
(* the call's subprocesses and server commands fail.                       *)
(***************************************************************************)
ErrCommitTime == "Command failed: git show"
ErrCommandFailed == "Command failed"
ErrUnexpected == "Unexpected error"
ErrFlush == "Database flush failed"
ErrServerStart == "Server failed to start in time"
ErrSetup == "setup command failed"
ErrThread == "can't start new thread"
ErrCsv == "line contains NUL"
CommitTime == "2024-01-15T10:00:00Z"

READ_COMMANDS == {"GET", "MGET", "LRANGE", "SPOP", "ZPOPMIN", "XRANGE"}

\* READ_POPULATE_MAP.get(command): NoText for None
ReadPopulateMap(command) ==
  CASE command = "GET" -> "SET"
    [] command = "MGET" -> "MSET"
    [] command = "LRANGE" -> "LPUSH"
    [] command = "SPOP" -> "SADD"
    [] command = "ZPOPMIN" -> "ZADD"
    [] OTHER -> NoText

\* A record of the output; a key a record does not carry holds NoText.
Record(test_id, test_phase, status, error, command, timestamp, config_set) ==
  [test_id |-> test_id, test_phase |-> test_phase, status |-> status,
   error |-> error, command |-> command, timestamp |-> timestamp,
   config_set |-> config_set]

NoRecord ==
  [some |-> FALSE,
   rec |-> Record(NoText, NoText, NoText, NoText, NoText, NoText, NoText)]
Some(rec) == [some |-> TRUE, rec |-> rec]

\* Mutant of CreateFailureMarker: the test id is the scenario id alone.
CreateFailureMarkerBareId(group_id, id, type, error, command, timestamp, config_set) ==
  Record(id, type, "failed", error, command, timestamp, config_set)

CreateFailureMarker(group_id, id, type, error, command, timestamp, config_set) ==
  Record(ToString(group_id) \o "_" \o id, type, "failed", error, command,
         timestamp, config_set)

\* MetricsProcessor.create_metrics: none for an empty or absent row, else a
\* record; it never raises.
CreateMetrics(row, command, timestamp) ==
  IF ~row.found THEN NoRecord
  ELSE Some(Record(NoText, NoText, NoText, NoText, command, timestamp, NoText))

\* How a call of an executor ends: the exception that leaves it (raised),
\* the record it returns (ret), and the phase and text of the exception
\* raised inside it, caught or not.
Out(raised, ret, phase, text) ==
  [raised |-> raised, ret |-> ret, phase |-> phase, text |-> text]

Propagated(phase, text) == Out(text, NoRecord, phase, text)

\* ClientRunner._run with capture_output and no timeout: a non-zero exit and
\* any other failure of subprocess.run are raised as RuntimeError.
RunErrors == {ErrCommandFailed, ErrUnexpected}

\* A key a dict does not hold.
Missing == "<missing>"

\* self.config.get("cluster_nodes", 1)
ConfigClusterNodes ==
  IF runner.has_cluster_nodes THEN runner.cluster_nodes ELSE 1

\* Mutant of IsCme: the node count is not looked at.
IsCmeAnyCluster == runner.cluster_mode

IsCme == runner.cluster_mode /\ ConfigClusterNodes > 1

\* scenario.get("cluster_execution", "single")
ClusterExecution(scenario) ==
  IF scenario.cluster_execution = Missing THEN "single"
  ELSE scenario.cluster_execution

ShouldUseParallel(scenario) ==
  IsCme /\ ClusterExecution(scenario) = "parallel"

GetActivePorts ==
  IF runner.cluster_mode THEN runner.cluster_ports ELSE <<DEFAULT_PORT>>

\* The processes of a launch plan, each ended as exits says.
Exited(plan, exits) ==
  [i \in DOMAIN plan |->
     [port |-> plan[i].port, cpu_range |-> plan[i].cpu_range,
      state |-> "exited", returncode |-> exits[i].returncode,
      stdout |-> exits[i].stdout]]

RECURSIVE JoinAll(_, _)
JoinAll(procs, k) ==
  IF k = 0 THEN <<>> ELSE JoinResult(JoinAll(procs, k - 1), procs[k])

\* Every way a call of _run_parallel_search can end: the texts it can raise,
\* and NoText when it can return an aggregate.
ParallelCallOutcomes(scenario, ports, client_cpu_ranges) ==
  IF AssignmentRaises(scenario, client_cpu_ranges) THEN {ErrModuloByZero}
  ELSE LET plan == LaunchPlan(scenario, ports, client_cpu_ranges)
       IN (IF plan = <<>> THEN {} ELSE {ErrLaunch})
          \cup { FinishParallel(JoinAll(Exited(plan, exits), Len(plan)),
                                scenario).raised :
                   exits \in [DOMAIN plan -> ClientExits] }

ParOutcomeTable ==
  [pc \in 0..MaxParallelClients, np \in 1..MaxNodes, nc \in 0..MaxCpuRanges |->
     ParallelCallOutcomes([command |-> NoText, parallel_clients |-> pc],
                          Ports(np), CpuRanges(nc))]

ParallelOutcomes(scenario) ==
  ParOutcomeTable[scenario.parallel_clients, Len(GetActivePorts),
                  Len(runner.client_cpu_ranges)]

\* Outputs of a single measured invocation that exited zero.
UnitStdouts == { <<>>, <<TextLine>>, <<HeaderLine, TextLine>>, SampleStdout }

\* deep_merge(current_profiling_set, scenario["profiling"]).get("enabled")
ScenarioProfilingEnabled(scenario) ==
  IF scenario.profiling \in {"none", "delays"} THEN runner.profiling_enabled
  ELSE scenario.profiling = "on"

\* Lines 942-955: the handler of the executor's try block.
ScenarioExcept(scenario, group_id, text) ==
  IF metrics_processor
  THEN Some(CreateFailureMarker(group_id, scenario.id, scenario.type, text,
                                scenario.command, CommitTime,
                                runner.current_config_set))
  ELSE NoRecord

\* Mutant of Caught: the handler raises the exception again.
CaughtReraised(scenario, group_id, phase, text) == Propagated(phase, text)

Caught(scenario, group_id, phase, text) ==
  Out(NoText, ScenarioExcept(scenario, group_id, text), phase, text)

\* An executor that marks a unit without a row as failed.
MeasuredMarksNoRow(scenario, group_id, row) ==
  IF ~metrics_processor THEN Out(NoText, NoRecord, "none", NoText)
  ELSE IF ~row.found
  THEN Out(NoText, ScenarioExcept(scenario, group_id, "No results"), "none",
           NoText)
  ELSE Out(NoText,
           Some([CreateMetrics(row, scenario.command, CommitTime).rec EXCEPT
                   !.status = "success"]),
           "none", NoText)

\* Lines 897-940: after a measured invocation that did not raise.
Measured(scenario, group_id, row) ==
  IF ~metrics_processor THEN Out(NoText, NoRecord, "none", NoText)
  ELSE IF ~row.found THEN Out(NoText, NoRecord, "none", NoText)
  ELSE LET metrics == CreateMetrics(row, scenario.command, CommitTime)
       IN IF ~metrics.some THEN Out(NoText, NoRecord, "none", NoText)
          ELSE Out(NoText,
                   Some([metrics.rec EXCEPT
                           !.status = "success",
                           !.test_id = ToString(group_id) \o "_" \o scenario.id,
                           !.test_phase = scenario.type,
                           !.config_set = runner.current_config_set]),
                   "none", NoText)

\* _run_single_scenario: the ways a call can end.
RunSingleScenario(scenario, group_id) ==
  LET parallel == ShouldUseParallel(scenario)
      par == ParallelOutcomes(scenario)
      parErrors == par \ {NoText}
      flushErrors == IF scenario.flush_before THEN {ErrFlush} ELSE {}
      setupErrors == IF scenario.setup_commands /= <<>> THEN {ErrSetup} ELSE {}
      warmupErrors ==
        IF scenario.warmup > 0
        THEN (IF parallel THEN parErrors ELSE RunErrors)
        ELSE {}
      warmupPasses == scenario.warmup = 0 \/ ~parallel \/ NoText \in par
      startErrors ==
        IF warmupPasses /\ profiler /\ ScenarioProfilingEnabled(scenario)
        THEN {ErrThread} ELSE {}
      measureErrors ==
        IF ~warmupPasses THEN {}
        ELSE IF parallel THEN parErrors ELSE RunErrors
      parseErrors ==
        IF warmupPasses /\ ~parallel /\ metrics_processor THEN {ErrCsv} ELSE {}
      rows ==
        IF ~warmupPasses THEN {}
        ELSE IF parallel
        THEN (IF NoText \in par THEN {FoundRow(SampleRow)} ELSE {})
        ELSE { ParseCsvRow(stdout) : stdout \in UnitStdouts }
  IN { Propagated("flush", e) : e \in flushErrors }
     \cup { Propagated("setup", e) : e \in setupErrors }
     \cup { Caught(scenario, group_id, "warmup", e) : e \in warmupErrors }
     \cup { Caught(scenario, group_id, "profiler_start", e) : e \in startErrors }
     \cup { Caught(scenario, group_id, "measure", e) : e \in measureErrors }
     \cup { Caught(scenario, group_id, "parse", e) : e \in parseErrors }
     \cup { Measured(scenario, group_id, row) : row \in rows }

\* Lines 501-525: csv.DictReader over all the lines (the first one is the
\* header), the first row of the command; a data line is a row of the command.
RECURSIVE FirstDataFrom(_, _)
FirstDataFrom(lines, i) ==
  IF i > Len(lines) THEN NoRow
  ELSE IF lines[i].kind = "data" THEN FoundRow(lines[i].f)
  ELSE FirstDataFrom(lines, i + 1)

SimpleRow(stdout) ==
  IF stdout = <<>> \/ stdout[1].kind /= "header" THEN NoRow
  ELSE FirstDataFrom(stdout, 2)

\* _execute_simple_scenario: the ways a call can end.
ExecuteSimpleScenario(data) ==
  LET cleanErrors ==
        IF runner.server_launcher THEN {ErrServerStart} ELSE {ErrFlush}
      populateErrors ==
        IF data.needs_population /\ ReadPopulateMap(data.command) /= NoText
        THEN RunErrors ELSE {}
  IN { Propagated("flush", e) : e \in cleanErrors }
     \cup { Propagated("populate", e) : e \in populateErrors }
     \cup { Propagated("measure", e) : e \in RunErrors }
     \cup { Out(NoText, NoRecord, "parse", ErrCsv) }
     \cup { Out(NoText,
                CreateMetrics(SimpleRow(stdout), data.command, CommitTime),
                "none", NoText) : stdout \in UnitStdouts }

(***************************************************************************)
(* Spec: run_benchmark_config.                                             *)
(***************************************************************************)


\* The scenario the iterator yields as unit idx of a grouped run.
Executions ==
  { [cluster_execution |-> "single", parallel_clients |-> 0] }
    \cup { [cluster_execution |-> "parallel", parallel_clients |-> pc] :
             pc \in 0..MaxParallelClients }

Scenarios(idx) ==
  { [id |-> "s" \o ToString(idx), type |-> type, command |-> "FT.SEARCH idx *",
     warmup |-> warmup, cluster_execution |-> e.cluster_execution,
     parallel_clients |-> e.parallel_clients, flush_before |-> flush_before,
     setup_commands |-> setup_commands, profiling |-> profiling] :
      type \in {"read", "write"}, warmup \in {0, 60},
      e \in Executions, flush_before \in BOOLEAN,
      setup_commands \in {<<>>, <<"FT.CREATE idx">>},
      profiling \in {"none", "on", "off"} }

\* Two scenarios to a group.
GroupOf(idx) == (idx + 1) \div 2

\* The unit the iterator yields in a flat run.
SimpleUnits ==
  { [format |-> "simple", command |-> c,
     needs_population |-> c \in READ_COMMANDS,
     populate_command |-> ReadPopulateMap(c)] : c \in {"GET", "SET", "XRANGE"} }

\* client_cpu_ranges is empty without a cpu_allocation, else one range a node.
Topologies ==
  UNION { { [cluster_nodes |-> n, cpus |-> k] : k \in {0, n} } :
            n \in 1..MaxNodes }

Runners ==
  { [uses_test_groups |-> g, profiling_enabled |-> p, server_launcher |-> l,
     cluster_mode |-> c, has_cluster_nodes |-> TRUE,
     cluster_nodes |-> t.cluster_nodes,
     cluster_ports |-> Ports(t.cluster_nodes),
     client_cpu_ranges |-> CpuRanges(t.cpus),
     current_config_set |-> "default"] :
      g \in BOOLEAN, p \in BOOLEAN, l \in BOOLEAN, c \in BOOLEAN,
      t \in Topologies }

\* The unit executed last: its place in the run, its group, id and type, the
\* phase and text of the exception raised in it, and the number of records
\* collected before it.
NoLast ==
  [unit |-> 0, group |-> 0, id |-> NoText, type |-> NoText, phase |-> "none",
   text |-> NoText, before |-> 0]

RunInit ==
  /\ run_pc = "start"
  /\ runner \in Runners
  /\ metrics_processor = FALSE
  /\ profiler = FALSE
  /\ unit_count = 0
  /\ metric_json = <<>>
  /\ written = <<>>
  /\ run_raised = NoText
  /\ last = NoLast
  /\ AggIdle
  /\ ParIdle
  /\ ExtIdle

\* Lines 305-312: the commit time, then _setup_profiling_and_metrics.
RunStart ==
  /\ run_pc = "start"
  /\ \/ /\ run_pc' = "iterate"
        /\ metrics_processor' = ~runner.profiling_enabled
        /\ profiler' = runner.profiling_enabled
        /\ UNCHANGED run_raised
     \/ /\ run_pc' = "raised"
        /\ run_raised' = ErrCommitTime
        /\ UNCHANGED <<metrics_processor, profiler>>
  /\ UNCHANGED <<runner, unit_count, metric_json, written, last, aggVars,
                 parVars, extVars>>

\* Lines 324-325: a returned record is appended.
Collect(json, ret) == IF ret.some THEN Append(json, ret.rec) ELSE json

\* Lines 316-325 for one unit whose execution ended as o.
RunUnit(o, group_id, id, type) ==
  /\ unit_count' = unit_count + 1
  /\ last' = [unit |-> unit_count + 1, group |-> group_id, id |-> id,
              type |-> type, phase |-> o.phase, text |-> o.text,
              before |-> Len(metric_json)]
  /\ IF o.raised /= NoText
     THEN /\ run_pc' = "raised"
          /\ run_raised' = o.raised
          /\ UNCHANGED metric_json
     ELSE /\ metric_json' = Collect(metric_json, o.ret)
          /\ UNCHANGED <<run_pc, run_raised>>
  /\ UNCHANGED <<runner, metrics_processor, profiler, written, aggVars,
                 parVars, extVars>>

\* One turn of the loop in flat mode.
ExecuteSimpleUnit ==
  /\ run_pc = "iterate" /\ ~runner.uses_test_groups
  /\ unit_count < MaxUnits
  /\ LET ends == UNION { ExecuteSimpleScenario(data) : data \in SimpleUnits }
     IN \E o \in ends : RunUnit(o, 0, NoText, NoText)

\* One turn of the loop in grouped mode.
ExecuteGroupUnit ==
  /\ run_pc = "iterate" /\ runner.uses_test_groups
  /\ unit_count < MaxUnits
  /\ LET group_id == GroupOf(unit_count + 1)
         ends == UNION { { [o |-> o, id |-> scenario.id, type |-> scenario.type] :
                             o \in RunSingleScenario(scenario, group_id) } :
                           scenario \in Scenarios(unit_count + 1) }
     IN \E e \in ends : RunUnit(e.o, group_id, e.id, e.type)

\* Mutant of FinalizeMetrics: the sink is written even with nothing collected.
FinalizeMetricsAlways(sink, json, batches) ==
  IF sink THEN Append(batches, json) ELSE batches

\* _finalize_metrics: the batches written once it has run.
FinalizeMetrics(sink, json, batches) ==
  IF sink /\ json /= <<>> THEN Append(batches, json) ELSE batches

\* Line 328, once the iterator is exhausted.
RunFinalize ==
  /\ run_pc = "iterate"
  /\ written' = FinalizeMetrics(metrics_processor, metric_json, written)
  /\ run_pc' = "done"
  /\ UNCHANGED <<runner, metrics_processor, profiler, unit_count, metric_json,
                 run_raised, last, aggVars, parVars,
                 extVars>>

Next == RunStart \/ ExecuteSimpleUnit \/ ExecuteGroupUnit \/ RunFinalize

(***************************************************************************)
(* _build_benchmark_command.  An optional number is a record: None, or     *)
(* Just(n); an optional string is NoText when it is None or empty (the     *)
(* code tests both by truth).                                              *)
(***************************************************************************)
None == [some |-> FALSE, v |-> 0]
Just(n) == [some |-> TRUE, v |-> n]

\* str(x)
Str(o) == IF o.some THEN ToString(o.v) ELSE "None"

\* bool(x) of an optional number
Truthy(o) == o.some /\ o.v /= 0

\* dict.get(key, default) for a key that is missing (None) or holds a number
GetOr(o, default) == IF o.some THEN o.v ELSE default

\* shlex.split of the commands the scenarios carry.
ShlexSplit(command) ==
  CASE command = "FT.SEARCH idx *" -> <<"FT.SEARCH", "idx", "*">>
    [] command = "FT.SEARCH idx * NOCONTENT" ->
         <<"FT.SEARCH", "idx", "*", "NOCONTENT">>
    [] command = "PING" -> <<"PING">>
    [] OTHER -> <<>>

\* Lines 594-598: CPU pinning, then the executable.
Taskset(cpu_range) ==
  LET cores == IF cpu_range /= NoText THEN cpu_range ELSE runner.cores
  IN (IF cores /= NoText THEN <<"taskset", "-c", cores>> ELSE <<>>)
     \o <<runner.valkey_benchmark_path>>

\* Lines 601-606; tls is "None", "True" or "False".
TlsFlags(tls) ==
  LET use_tls == IF tls /= "None" THEN tls = "True" ELSE runner.tls_mode
  IN IF use_tls
     THEN <<"--tls", "--cert", "./tests/tls/valkey.crt", "--key",
            "./tests/tls/valkey.key", "--cacert", "./tests/tls/ca.crt">>
     ELSE <<>>

\* Lines 609-610.
Connection(port) ==
  <<"-h", runner.target_ip, "-p",
    IF Truthy(port) THEN Str(port)
    ELSE ToString(GetOr(runner.port, DEFAULT_PORT))>>

\* Lines 614-624; a relative dataset path is resolved against Path.cwd().
DatasetFlags(scenario) ==
  IF scenario.dataset = NoText THEN <<>>
  ELSE <<"--dataset",
         IF scenario.dataset_absolute THEN scenario.dataset
         ELSE runner.cwd \o "/" \o scenario.dataset>>
       \o (IF scenario.xml_root_element /= NoText
           THEN <<"--xml-root-element", scenario.xml_root_element>>
           ELSE <<>>)
       \o (IF Truthy(scenario.maxdocs) /\ scenario.type = "write"
           THEN <<"--maxdocs", Str(scenario.maxdocs)>>
           ELSE <<>>)

\* Lines 627-638.
ScenarioRunLength(scenario, warmup_mode) ==
  IF warmup_mode THEN <<"--duration", ToString(GetOr(scenario.warmup, 60))>>
  ELSE IF Truthy(scenario.duration)
  THEN <<"--duration", Str(scenario.duration)>>
  ELSE IF Truthy(scenario.requests) THEN <<"-n", Str(scenario.requests)>>
  ELSE IF Truthy(scenario.maxdocs) THEN <<"-n", Str(scenario.maxdocs)>>
  ELSE <<"--duration", ToString(GetOr(runner.duration, 60))>>

\* Lines 640-651.
ScenarioFlags(scenario) ==
  <<"-c", ToString(GetOr(scenario.clients, 1)),
    "-P", ToString(GetOr(scenario.pipeline, 1)),
    "-r", ToString(GetOr(runner.keyspacelen, 1000000))>>
  \o (IF scenario.sequential THEN <<"--sequential">> ELSE <<>>)
  \o (IF /\ scenario.cluster_execution = "single"
         /\ runner.cluster_mode
         /\ runner.has_cluster_nodes /\ runner.cluster_nodes /= 0
      THEN <<"--cluster">> ELSE <<>>)

\* Lines 654-659; rand is what random.randint returns when it is called.
ScenarioSeed(scenario, seed_val, rand) ==
  IF ~scenario.seed_disabled /\ ~runner.seed_disabled
  THEN <<"--seed", IF seed_val.some THEN Str(seed_val) ELSE ToString(rand)>>
  ELSE <<>>

\* Mutant of ScenarioTail: the output flag comes after the command.
ScenarioTailCsvLast(scenario) ==
  <<"--">> \o ShlexSplit(scenario.command) \o <<"--csv">>

\* Lines 661-663.
ScenarioTail(scenario) ==
  <<"--csv", "--">> \o ShlexSplit(scenario.command)

\* Mutant of FlatRunLength: a request count supplied is also passed.
FlatRunLengthBoth(duration, requests) ==
  (IF duration.some THEN <<"--duration", Str(duration)>> ELSE <<>>)
  \o (IF requests.some \/ ~duration.some THEN <<"-n", Str(requests)>>
      ELSE <<>>)

\* Lines 666-669.
FlatRunLength(duration, requests) ==
  IF duration.some THEN <<"--duration", Str(duration)>>
  ELSE <<"-n", Str(requests)>>

\* Lines 671-688.
FlatFlags(a) ==
  <<"-r", Str(a.keyspacelen), "-d", Str(a.data_size), "-P", Str(a.pipeline),
    "-c", Str(a.clients), "-t", a.command>>
  \o (IF runner.benchmark_threads.some
      THEN <<"--threads", Str(runner.benchmark_threads)>> ELSE <<>>)
  \o (IF a.warmup.some /\ a.warmup.v > 0
      THEN <<"--warmup", Str(a.warmup)>> ELSE <<>>)
  \o (IF a.sequential THEN <<"--sequential">> ELSE <<>>)
  \o (IF ~runner.seed_disabled THEN <<"--seed", Str(a.seed_val)>> ELSE <<>>)

\* Line 690.
FlatTail == <<"--csv">>

BuildBenchmarkCommand(a, rand) ==
  Taskset(a.cpu_range) \o TlsFlags(a.tls) \o Connection(a.port)
  \o (IF a.has_scenario
      THEN DatasetFlags(a.scenario)
           \o ScenarioRunLength(a.scenario, a.warmup_mode)
           \o ScenarioFlags(a.scenario)
           \o ScenarioSeed(a.scenario, a.seed_val, rand)
           \o ScenarioTail(a.scenario)
      ELSE FlatRunLength(a.duration, a.requests) \o FlatFlags(a) \o FlatTail)

(***************************************************************************)
(* _expand_scenario_options, on a heap of objects.  An address is an       *)
(* index of the heap.  A scenario is a dict object whose "options" key is  *)
(* missing, None, or refers to a map object: the ordered (flag, suffix)    *)
(* pairs of the options.                                                   *)
(***************************************************************************)
MapObject(items) == [kind |-> "map", items |-> items]

DictObject(id, command, description, type, options_state, options_ref) ==
  [kind |-> "dict", id |-> id, command |-> command,
   description |-> description, type |-> type,
   options_state |-> options_state, options_ref |-> options_ref]

\* The value of the scenario at an address, nested objects included.
Deref(heap, addr) ==
  LET o == heap[addr]
  IN [id |-> o.id, command |-> o.command, description |-> o.description,
      type |-> o.type,
      options |-> [state |-> o.options_state,
                   items |-> IF o.options_state = "map"
                             THEN heap[o.options_ref].items ELSE <<>>]]

\* A heap holding one scenario of the given value, and its address.
Store(value) ==
  IF value.options.state = "map"
  THEN [heap |-> <<MapObject(value.options.items),
                   DictObject(value.id, value.command, value.description,
                              value.type, "map", 1)>>,
        addr |-> 2]
  ELSE [heap |-> <<DictObject(value.id, value.command, value.description,
                              value.type, value.options.state, 0)>>,
        addr |-> 1]

\* Mutant of DeepCopy: copy.copy, the nested objects are shared.
ShallowCopy(heap, addr) ==
  [heap |-> Append(heap, heap[addr]), addr |-> Len(heap) + 1]

\* copy.deepcopy of the scenario at addr.
DeepCopy(heap, addr) ==
  LET o == heap[addr]
  IN IF o.options_state = "map"
     THEN [heap |-> heap \o <<heap[o.options_ref],
                              [o EXCEPT !.options_ref = Len(heap) + 1]>>,
           addr |-> Len(heap) + 2]
     ELSE [heap |-> Append(heap, o), addr |-> Len(heap) + 1]

\* Mutant of Variant: the flag is appended after a space even when empty.
VariantAlwaysSpaced(o, scenario, flag, suffix) ==
  [o EXCEPT !.id = scenario.id \o suffix,
            !.command = scenario.command \o " " \o flag,
            !.description = IF o.description /= Missing /\ flag /= NoText
                            THEN o.description \o " + " \o flag
                            ELSE o.description]

\* Lines 736-739: the copy o of scenario, for one (flag, suffix) pair.
Variant(o, scenario, flag, suffix) ==
  [o EXCEPT !.id = scenario.id \o suffix,
            !.command = scenario.command
                        \o (IF flag /= NoText THEN " " \o flag ELSE NoText),
            !.description = IF o.description /= Missing /\ flag /= NoText
                            THEN o.description \o " + " \o flag
                            ELSE o.description]

\* Lines 733-742: the loop over the first k pairs of the options.
RECURSIVE ExpandLoop(_, _, _, _)
ExpandLoop(heap, addr, items, k) ==
  IF k = 0 THEN [heap |-> heap, ret |-> <<>>]
  ELSE LET before == ExpandLoop(heap, addr, items, k - 1)
           copy == DeepCopy(before.heap, addr)
           variant == Variant(copy.heap[copy.addr], before.heap[addr],
                              items[k].flag, items[k].suffix)
       IN [heap |-> [copy.heap EXCEPT ![copy.addr] = variant],
           ret |-> Append(before.ret, copy.addr)]

\* Lines 726-742: the heap after the call and the addresses returned.
ExpandOnHeap(heap, addr) ==
  LET options == Deref(heap, addr).options
  IN IF options.state /= "map" \/ options.items = <<>>
     THEN [heap |-> heap, ret |-> <<addr>>]
     ELSE ExpandLoop(heap, addr, options.items, Len(options.items))

\* The values of the variants of a scenario value.
ExpandScenarioOptions(scenario) ==
  LET stored == Store(scenario)
      done == ExpandOnHeap(stored.heap, stored.addr)
  IN [i \in DOMAIN done.ret |-> Deref(done.heap, done.ret[i])]

(***************************************************************************)
(* SpecExpand: a caller expands a scenario and then changes a variant.     *)
(***************************************************************************)
Flags == {NoText, "NOCONTENT", "VERBATIM"}
Suffixes == {NoText, "_x"}

\* Ordered maps of at most MaxOptions pairs; the flags are the keys.
OptionItems ==
  UNION { { items \in [1..n -> [flag : Flags, suffix : Suffixes]] :
              \A i, j \in 1..n : i /= j => items[i].flag /= items[j].flag } :
          n \in 0..MaxOptions }

OptionValues ==
  { [state |-> "missing", items |-> <<>>], [state |-> "null", items |-> <<>>] }
    \cup { [state |-> "map", items |-> items] : items \in OptionItems }

ScenarioValues ==
  [id : {"s1"}, command : {"FT.SEARCH idx *"},
   description : {Missing, "search"}, type : {"read"},
   options : OptionValues]

ExpInit ==
  /\ exp_pc = "call"
  /\ \E value \in ScenarioValues :
       /\ exp_heap = Store(value).heap
       /\ exp_in = [addr |-> Store(value).addr, value |-> value]
  /\ exp_ret = <<>>
  /\ AggIdle
  /\ ParIdle
  /\ MoreIdle
  /\ RunIdle
  /\ FnIdle
  /\ IterIdle

ExpandCall ==
  /\ exp_pc = "call"
  /\ LET done == ExpandOnHeap(exp_heap, exp_in.addr)
     IN exp_heap' = done.heap /\ exp_ret' = done.ret
  /\ exp_pc' = "returned"
  /\ UNCHANGED <<exp_in, aggVars, parVars, runVars, moreVars, fnVars, iterVars>>

\* The caller assigns a key of a returned variant.
MutateVariant ==
  /\ exp_pc = "returned"
  /\ \E i \in DOMAIN exp_ret, key \in {"id", "command", "type"} :
       exp_heap' =
         [exp_heap EXCEPT ![exp_ret[i]] =
            CASE key = "id" -> [@ EXCEPT !.id = "changed"]
              [] key = "command" -> [@ EXCEPT !.command = "PING"]
              [] OTHER -> [@ EXCEPT !.type = "write"]]
  /\ exp_pc' = "mutated"
  /\ UNCHANGED <<exp_in, exp_ret, aggVars, parVars, runVars, moreVars, fnVars,
                 iterVars>>

\* The caller adds a pair to the options map of a returned variant.
MutateVariantOptions ==
  /\ exp_pc = "returned"
  /\ \E i \in DOMAIN exp_ret :
       LET o == exp_heap[exp_ret[i]]
       IN /\ o.options_state = "map"
          /\ exp_heap' =
               [exp_heap EXCEPT ![o.options_ref] =
                  [@ EXCEPT !.items =
                     Append(@, [flag |-> "added", suffix |-> "_added"])]]
  /\ exp_pc' = "mutated"
  /\ UNCHANGED <<exp_in, exp_ret, aggVars, parVars, runVars, moreVars, fnVars,
                 iterVars>>

ExpNext == ExpandCall \/ MutateVariant \/ MutateVariantOptions

(***************************************************************************)
(* SpecFn: the runner's pure methods applied to bounded inputs, each call  *)
(* made MaxCalls times with the same arguments.                            *)
(***************************************************************************)
\* A runner whose fields the method called does not read.
PlainRunner ==
  [cluster_mode |-> FALSE, has_cluster_nodes |-> FALSE, cluster_nodes |-> 1]

ParseLines ==
  { BlankLine, TextLine, HeaderLine, DataLine(SampleRow), DataLine(OtherRow),
    DataLine(ShortRow) }

ParseStdouts ==
  UNION { [1..n -> ParseLines] : n \in 0..MaxLines }

ParseCases ==
  { [runner |-> PlainRunner, call |-> [op |-> "_parse_csv_row", arg |-> so]] :
      so \in ParseStdouts }

SelectRunners ==
  [cluster_mode : BOOLEAN, has_cluster_nodes : BOOLEAN,
   cluster_nodes : 1..MaxNodes]

SelectCases ==
  { [runner |-> r,
     call |-> [op |-> "_should_use_parallel",
               arg |-> [cluster_execution |-> e]]] :
      r \in SelectRunners, e \in {Missing, "single", "parallel"} }

\* Runners of a flat and of a grouped configuration.
BuildRunners ==
  { [cores |-> IF pinned THEN "0-3" ELSE NoText,
     valkey_benchmark_path |-> "src/valkey-benchmark",
     tls_mode |-> pinned, target_ip |-> "127.0.0.1", port |-> None,
     duration |-> None, keyspacelen |-> Just(1000),
     cluster_mode |-> cluster_mode, has_cluster_nodes |-> TRUE,
     cluster_nodes |-> cluster_nodes, seed_disabled |-> seed_disabled,
     benchmark_threads |-> IF pinned THEN Just(4) ELSE None,
     cwd |-> "/work"] :
      pinned \in BOOLEAN, cluster_mode \in BOOLEAN,
      cluster_nodes \in 1..MaxNodes, seed_disabled \in BOOLEAN }

\* The calls of _populate_keyspace and _execute_simple_scenario.
FlatCalls ==
  { [has_scenario |-> FALSE, tls |-> tls, requests |-> requests,
     keyspacelen |-> Just(1000), data_size |-> Just(16),
     pipeline |-> Just(1), clients |-> Just(50), command |-> command,
     seed_val |-> seed_val, sequential |-> sequential,
     duration |-> duration, warmup |-> warmup, port |-> None,
     cpu_range |-> NoText] :
      tls \in {"None", "True"}, requests \in {None, Just(1000)},
      command \in {"SET", "GET"}, seed_val \in {None, Just(7)},
      sequential \in BOOLEAN, duration \in {None, Just(30)},
      warmup \in {None, Just(0), Just(5)} }

BuildScenarios ==
  { [id |-> "s1", type |-> type,
     command |-> IF type = "read" THEN "FT.SEARCH idx *" ELSE "PING",
     dataset |-> dataset,
     dataset_absolute |-> FALSE,
     xml_root_element |-> IF dataset = NoText THEN NoText ELSE "doc",
     maxdocs |-> maxdocs, duration |-> duration, requests |-> requests,
     warmup |-> Just(5), clients |-> None, pipeline |-> Just(10),
     sequential |-> FALSE, cluster_execution |-> cluster_execution,
     seed_disabled |-> seed_disabled] :
      type \in {"read", "write"},
      dataset \in {NoText, "datasets/wiki.xml"},
      maxdocs \in {None, Just(500)}, duration \in {None, Just(30)},
      requests \in {None, Just(1000)},
      cluster_execution \in {Missing, "single", "parallel"},
      seed_disabled \in BOOLEAN }

\* The calls of _run_single_scenario and _run_parallel_search.
ScenarioCalls ==
  { [has_scenario |-> TRUE, tls |-> "None", seed_val |-> seed_val,
     scenario |-> scenario, warmup_mode |-> warmup_mode,
     port |-> IF node THEN Just(6380) ELSE None,
     cpu_range |-> IF node THEN "4-7" ELSE NoText] :
      seed_val \in {None, Just(7)}, scenario \in BuildScenarios,
      warmup_mode \in BOOLEAN, node \in BOOLEAN }

BuildCases ==
  { [runner |-> r, call |-> [op |-> "_build_benchmark_command", arg |-> a]] :
      r \in BuildRunners, a \in FlatCalls \cup ScenarioCalls }

\* Values random.randint(0, 1000000) returns.
RandomSeeds == {0, 424242}

FnCases == ParseCases \cup SelectCases \cup BuildCases

FnInit ==
  /\ fn_pc = "call"
  /\ fn_rets = <<>>
  /\ \E c \in FnCases : fn_call = c.call /\ RunnerOnly(c.runner)
  /\ AggIdle
  /\ ParIdle
  /\ MoreIdle
  /\ IterIdle
  /\ ExpIdle

\* The caller's step: the value returned is kept.
Returned(ret) ==
  /\ fn_pc = "call"
  /\ fn_rets' = Append(fn_rets, ret)
  /\ fn_pc' = IF Len(fn_rets') = MaxCalls THEN "done" ELSE "call"
  /\ UNCHANGED <<fn_call, aggVars, parVars, runVars, moreVars, iterVars, expVars>>

CallParseCsvRow ==
  /\ fn_call.op = "_parse_csv_row"
  /\ Returned(ParseCsvRow(fn_call.arg))

CallShouldUseParallel ==
  /\ fn_call.op = "_should_use_parallel"
  /\ Returned(ShouldUseParallel(fn_call.arg))

CallBuildBenchmarkCommand ==
  /\ fn_call.op = "_build_benchmark_command"
  /\ \E rand \in RandomSeeds :
       Returned(BuildBenchmarkCommand(fn_call.arg, rand))

FnNext ==
  CallParseCsvRow \/ CallShouldUseParallel \/ CallBuildBenchmarkCommand

(***************************************************************************)
(* The scenario iterator: _iterate_scenarios and the two generators it     *)
(* delegates to.  A generator is suspended at a yield; one step of the     *)
(* consumer resumes it up to its next yield or to its end.                 *)
(***************************************************************************)
WRITE_COMMANDS ==
  {"SET", "MSET", "INCR", "LPUSH", "RPUSH", "LPOP", "RPOP", "SADD", "HSET",
   "ZADD", "XADD"}

RECURSIVE Concat(_)
Concat(seqs) ==
  IF seqs = <<>> THEN <<>> ELSE Head(seqs) \o Concat(Tail(seqs))

\* A product whose first list varies fastest.
RECURSIVE ProductLeftmostFastest(_)
ProductLeftmostFastest(lists) ==
  IF lists = <<>> THEN << <<>> >>
  ELSE LET rest == ProductLeftmostFastest(Tail(lists))
       IN Concat([j \in DOMAIN rest |->
                    [i \in DOMAIN Head(lists) |->
                       <<Head(lists)[i]>> \o rest[j]]])

\* itertools.product: the tuples in odometer order, the last list fastest.
RECURSIVE Product(_)
Product(lists) ==
  IF lists = <<>> THEN << <<>> >>
  ELSE LET rest == Product(Tail(lists))
       IN Concat([i \in DOMAIN Head(lists) |->
                    [j \in DOMAIN rest |-> <<Head(lists)[i]>> \o rest[j]]])

\* _generate_combinations; config is self.config.
GenerateCombinations(config) ==
  Product(<< IF config.has_requests THEN config.requests ELSE <<None>>,
             config.keyspacelen, config.data_sizes, config.pipelines,
             config.clients, config.commands, <<config.warmup>>,
             <<config.duration>> >>)

\* The two early `continue`s of _iterate_simple_scenarios.
Skipped(command) ==
  \/ command \notin READ_COMMANDS \cup WRITE_COMMANDS
  \/ command \in {"MSET", "MGET"} /\ runner.cluster_mode

\* "needs_population" of a unit.
NeedsPopulation(command) == command \in READ_COMMANDS

\* The dict yielded for a combination and a run; the seed is kept apart.
SimpleUnit(combo, run_num) ==
  [format |-> "simple", run_num |-> run_num, requests |-> combo[1],
   keyspacelen |-> combo[2], data_size |-> combo[3], pipeline |-> combo[4],
   clients |-> combo[5], command |-> combo[6], warmup |-> combo[7],
   duration |-> combo[8],
   needs_population |-> NeedsPopulation(combo[6]),
   populate_command |-> ReadPopulateMap(combo[6])]

\* The first combination from index i on that is not skipped and is run at
\* least once; Len(combos) + 1 when there is none.
RECURSIVE NextCombination(_, _)
NextCombination(combos, i) ==
  IF i > Len(combos) THEN i
  ELSE IF Skipped(combos[i][6]) \/ runner.runs = 0
       THEN NextCombination(combos, i + 1)
       ELSE i

\* Where _iterate_simple_scenarios is after being resumed at position pos:
\* the next run of the same combination, or the first run of the next one.
ResumeSimple(pos) ==
  LET combos == IF pos.started THEN pos.combos
                ELSE GenerateCombinations(runner.config)
      again == pos.started /\ pos.run_num + 1 < runner.runs
      i == IF again THEN pos.i
           ELSE NextCombination(combos, IF pos.started THEN pos.i + 1 ELSE 1)
  IN [started |-> TRUE, combos |-> combos, i |-> i,
      run_num |-> IF again THEN pos.run_num + 1 ELSE 0]

\* Truthiness of a filter: None and the empty set are both the empty set.
Active(filter) == filter /= {}

\* test_group.get("group", "unknown"); None stands for "unknown".
GroupId(test_group) == test_group.group

GroupSkipped(test_group) ==
  /\ Active(runner.config.groups_to_run)
  /\ ~(GroupId(test_group).some
       /\ GroupId(test_group).v \in runner.config.groups_to_run)

\* A scenario filter that looks at the id the scenario had before fan-out.
VariantSkippedByOriginalId(scenario, expanded_scenario) ==
  /\ Active(runner.config.scenario_filter)
  /\ scenario.id \notin runner.config.scenario_filter

VariantSkipped(scenario, expanded_scenario) ==
  /\ Active(runner.config.scenario_filter)
  /\ expanded_scenario.id \notin runner.config.scenario_filter

\* The dict yielded for a variant of a scenario of a group.
GroupUnit(test_group, expanded_scenario) ==
  [format |-> "test_groups", scenario |-> expanded_scenario,
   group_id |-> GroupId(test_group),
   config_set |-> runner.current_config_set,
   config_suffix |-> runner.config_suffix]

\* The three nested loops of _iterate_test_groups_scenarios from candidate
\* position (g, s, v) on: the first variant that is yielded, or
\* g = Len(test_groups) + 1 when the loops end.
RECURSIVE NextVariant(_, _, _)
NextVariant(g, s, v) ==
  LET test_groups == runner.config.test_groups
  IN IF g > Len(test_groups) THEN [started |-> TRUE, g |-> g, s |-> 1, v |-> 1]
     ELSE IF GroupSkipped(test_groups[g]) \/ s > Len(test_groups[g].scenarios)
          THEN NextVariant(g + 1, 1, 1)
          ELSE LET scenario == test_groups[g].scenarios[s]
                   variants == ExpandScenarioOptions(scenario)
               IN IF v > Len(variants) THEN NextVariant(g, s + 1, 1)
                  ELSE IF VariantSkipped(scenario, variants[v])
                       THEN NextVariant(g, s, v + 1)
                       ELSE [started |-> TRUE, g |-> g, s |-> s, v |-> v]

ResumeGroups(pos) ==
  IF pos.started THEN NextVariant(pos.g, pos.s, pos.v + 1)
  ELSE NextVariant(1, 1, 1)

(***************************************************************************)
(* SpecIter: a consumer draws the units of a configuration one by one.     *)
(* it_yielded keeps the units without their seeds; the seed of the unit    *)
(* yielded last is in it_pos.                                              *)
(***************************************************************************)
MaxRuns == 2
MaxCommands == 2
MaxGroups == 2

IterCommands == {"GET", "MSET", "XRANGE", "FOO"}

\* Lists of distinct commands.
CommandLists ==
  UNION { { commands \in [1..n -> IterCommands] :
              \A i, j \in 1..n : i /= j => commands[i] /= commands[j] } :
          n \in 1..MaxCommands }

\* Parameter grids of flat configurations, the commands left open.
Grids ==
  LET one == [has_requests |-> TRUE, requests |-> <<Just(1000)>>,
              keyspacelen |-> <<100>>, data_sizes |-> <<16>>,
              pipelines |-> <<1>>, clients |-> <<50>>, commands |-> <<>>,
              warmup |-> 0, duration |-> None]
  IN { one,
       [one EXCEPT !.requests = <<Just(1000), Just(2000)>>,
                   !.clients = <<50, 100>>],
       [one EXCEPT !.keyspacelen = <<100, 200>>, !.data_sizes = <<16, 64>>],
       [one EXCEPT !.has_requests = FALSE, !.requests = <<>>,
                   !.duration = Just(30), !.pipelines = <<1, 10>>],
       [one EXCEPT !.keyspacelen = <<100, 200>>, !.data_sizes = <<>>] }

\* A configuration that is never run is taken with one grid only.
GridsOf(runs) == IF runs = 0 THEN {CHOOSE grid \in Grids : TRUE} ELSE Grids

FlatRunners ==
  UNION { { [cluster_mode |-> cluster_mode, runs |-> runs,
             uses_test_groups |-> FALSE,
             config |-> [grid EXCEPT !.commands = commands],
             current_config_set |-> NoText, config_suffix |-> NoText] :
              cluster_mode \in BOOLEAN, grid \in GridsOf(runs),
              commands \in CommandLists } :
          runs \in 0..MaxRuns }

IterScenario(id, items) ==
  [id |-> id, command |-> "FT.SEARCH idx *", description |-> Missing,
   type |-> "read",
   options |-> IF items = <<>> THEN [state |-> "missing", items |-> <<>>]
               ELSE [state |-> "map", items |-> items]]

ScenarioLists ==
  LET both == IterScenario("s1", << [flag |-> NoText, suffix |-> NoText],
                                    [flag |-> "NOCONTENT", suffix |-> "_x"] >>)
      plain == IterScenario("s2", <<>>)
      same == IterScenario("s1", << [flag |-> "VERBATIM", suffix |-> NoText] >>)
  IN { <<>>, <<both, plain>>, <<same>> }

TestGroups ==
  [group : {None, Just(1), Just(2)}, scenarios : ScenarioLists]

GroupRunners ==
  { [cluster_mode |-> FALSE, runs |-> 1, uses_test_groups |-> TRUE,
     config |-> [test_groups |-> test_groups, groups_to_run |-> groups_to_run,
                 scenario_filter |-> scenario_filter],
     current_config_set |-> "default", config_suffix |-> NoText] :
      test_groups \in UNION { [1..n -> TestGroups] : n \in 0..MaxGroups },
      groups_to_run \in {{}, {1}},
      scenario_filter \in {{}, {"s1_x"}, {"s1", "s2"}} }

IterInit ==
  /\ it_pc = "iterate"
  /\ it_pos = [started |-> FALSE]
  /\ it_yielded = <<>>
  /\ \E r \in FlatRunners \cup GroupRunners : RunnerOnly(r)
  /\ AggIdle
  /\ ParIdle
  /\ MoreIdle
  /\ FnIdle
  /\ ExpIdle

\* next() on _iterate_simple_scenarios.
IterateSimple ==
  /\ it_pc = "iterate"
  /\ ~runner.uses_test_groups
  /\ LET pos == ResumeSimple(it_pos)
     IN IF pos.i > Len(pos.combos)
        THEN /\ it_pc' = "exhausted"
             /\ it_pos' = pos
             /\ UNCHANGED it_yielded
        ELSE /\ \E seed_val \in RandomSeeds :
                  it_pos' = [started |-> TRUE, combos |-> pos.combos,
                             i |-> pos.i, run_num |-> pos.run_num,
                             seed |-> seed_val]
             /\ it_yielded' =
                  Append(it_yielded, SimpleUnit(pos.combos[pos.i], pos.run_num))
             /\ UNCHANGED it_pc
  /\ UNCHANGED <<aggVars, parVars, runVars, moreVars, fnVars, expVars>>

\* next() on _iterate_test_groups_scenarios.
IterateGroups ==
  /\ it_pc = "iterate"
  /\ runner.uses_test_groups
  /\ LET pos == ResumeGroups(it_pos)
         test_groups == runner.config.test_groups
     IN /\ it_pos' = pos
        /\ IF pos.g > Len(test_groups)
           THEN it_pc' = "exhausted" /\ UNCHANGED it_yielded
           ELSE /\ it_yielded' =
                     Append(it_yielded,
                            GroupUnit(test_groups[pos.g],
                                      ExpandScenarioOptions(
                                        test_groups[pos.g].scenarios[pos.s])[pos.v]))
                /\ UNCHANGED it_pc
  /\ UNCHANGED <<aggVars, parVars, runVars, moreVars, fnVars, expVars>>

\* _iterate_scenarios
IterNext == IterateSimple \/ IterateGroups

(***************************************************************************)
(* utils/cpu_utils.py.  A string is a sequence of one-character strings.   *)
(***************************************************************************)
DigitChars == <<"0", "1", "2", "3", "4", "5", "6", "7", "8", "9">>

IsDigit(c) == \E d \in DOMAIN DigitChars : DigitChars[d] = c

DigitValue(c) == (CHOOSE d \in DOMAIN DigitChars : DigitChars[d] = c) - 1

\* str.split(sep)
RECURSIVE SplitChars(_, _)
SplitChars(s, sep) ==
  IF \A i \in DOMAIN s : s[i] /= sep THEN <<s>>
  ELSE LET i == CHOOSE i \in DOMAIN s :
                  s[i] = sep /\ \A j \in 1..(i - 1) : s[j] /= sep
       IN <<SubSeq(s, 1, i - 1)>> \o SplitChars(SubSeq(s, i + 1, Len(s)), sep)

\* str.strip(), for the blank as the only whitespace
RECURSIVE StripChars(_)
StripChars(s) ==
  IF s = <<>> THEN s
  ELSE IF Head(s) = " " THEN StripChars(Tail(s))
  ELSE IF s[Len(s)] = " " THEN StripChars(SubSeq(s, 1, Len(s) - 1))
  ELSE s

RECURSIVE DecimalValue(_)
DecimalValue(s) ==
  IF s = <<>> THEN 0
  ELSE 10 * DecimalValue(SubSeq(s, 1, Len(s) - 1)) + DigitValue(s[Len(s)])

\* int(s) of a string without sign: None stands for the ValueError
\* "invalid literal for int()".
IntOf(s) ==
  LET t == StripChars(s)
  IN IF t /= <<>> /\ \A i \in DOMAIN t : IsDigit(t[i])
     THEN Just(DecimalValue(t)) ELSE None

\* str(n) of a natural number
RECURSIVE StrOfNat(_)
StrOfNat(n) ==
  IF n < 10 THEN <<DigitChars[n + 1]>>
  ELSE StrOfNat(n \div 10) \o <<DigitChars[(n % 10) + 1]>>

ErrCoreEmpty == "ValueError: Core range must be a non-empty string"
ErrCoreComma == "ValueError: Core range cannot start or end with comma"
ErrCoreCommas == "ValueError: Core range cannot contain consecutive commas"
ErrCoreNoPart ==
  "ValueError: Core range must contain at least one core or range"
ErrCoreRangeFormat == "ValueError: Range format should be 'start-end'"
ErrCoreRangeValues == "ValueError: Invalid core range values"
ErrCoreFormat == "ValueError: Invalid core range format"

Cores(cores) == [ok |-> TRUE, cores |-> cores, error |-> NoText]
CoreError(error) == [ok |-> FALSE, cores |-> <<>>, error |-> error]

\* A check of a pair that lets a reversed pair through.
RangeInvalidUnlessReversed(start, end) == start < 0 \/ end < 0

RangeInvalid(start, end) == start < 0 \/ end < 0 \/ start > end

\* One pass of the loop over the parts.
ParsePart(part) ==
  IF \E i \in DOMAIN part : part[i] = "-"
  THEN LET range_parts == SplitChars(part, "-")
       IN IF Len(range_parts) /= 2 THEN CoreError(ErrCoreRangeFormat)
          ELSE LET start == IntOf(range_parts[1])
                   end == IntOf(range_parts[2])
               IN IF ~start.some \/ ~end.some THEN CoreError(ErrCoreFormat)
                  ELSE IF RangeInvalid(start.v, end.v)
                       THEN CoreError(ErrCoreRangeValues)
                       ELSE Cores([i \in 1..(end.v - start.v + 1) |->
                                     start.v + i - 1])
  ELSE LET core == IntOf(part)
       IN IF ~core.some THEN CoreError(ErrCoreFormat)
          ELSE Cores(<<core.v>>)

\* The loop: the first part that fails ends it.
RECURSIVE ParseParts(_)
ParseParts(parts) ==
  IF parts = <<>> THEN Cores(<<>>)
  ELSE LET first == ParsePart(Head(parts))
       IN IF ~first.ok THEN first
          ELSE LET rest == ParseParts(Tail(parts))
               IN IF ~rest.ok THEN rest ELSE Cores(first.cores \o rest.cores)

parse_core_range(range_str) ==
  IF range_str = <<>> THEN CoreError(ErrCoreEmpty)
  ELSE IF Head(range_str) = "," \/ range_str[Len(range_str)] = ","
  THEN CoreError(ErrCoreComma)
  ELSE IF \E i \in 1..(Len(range_str) - 1) :
            range_str[i] = "," /\ range_str[i + 1] = ","
  THEN CoreError(ErrCoreCommas)
  ELSE LET parts == [i \in DOMAIN SplitChars(range_str, ",") |->
                       StripChars(SplitChars(range_str, ",")[i])]
       IN IF \E i \in DOMAIN parts : parts[i] = <<>>
          THEN CoreError(ErrCoreNoPart)
          ELSE ParseParts(parts)

\* str(n) of an integer
StrOfInt(n) == IF n < 0 THEN <<"-">> \o StrOfNat(0 - n) ELSE StrOfNat(n)

\* Blocks whose last core is the first core of the next block.
CalculateCpuRangesOneTooLong(cluster_nodes, cores_per_unit, offset) ==
  [i \in 1..cluster_nodes |->
     StrOfInt(offset + (i - 1) * cores_per_unit) \o <<"-">>
       \o StrOfInt(offset + (i - 1) * cores_per_unit + cores_per_unit)]

calculate_cpu_ranges(cluster_nodes, cores_per_unit, offset) ==
  [i \in 1..cluster_nodes |->
     LET start == offset + (i - 1) * cores_per_unit
         end == start + cores_per_unit - 1
     IN StrOfInt(start) \o <<"-">> \o StrOfInt(end)]

\* The first error of parse_core_range over a list of ranges, or NoText.
RECURSIVE FirstParseError(_)
FirstParseError(ranges) ==
  IF ranges = <<>> THEN NoText
  ELSE IF ~parse_core_range(Head(ranges)).ok
       THEN parse_core_range(Head(ranges)).error
       ELSE FirstParseError(Tail(ranges))

NoRanges == [some |-> FALSE, ranges |-> <<>>, error |-> NoText]

\* calculate_and_validate_cpu_ranges; manual is the (present, value) pair of
\* cpu_alloc[manual_key] and auto_cores the value of cpu_alloc[auto_cores_key].
CalculateAndValidateCpuRanges(cfg, manual, auto_cores, use_offset) ==
  IF ~cfg.has_cpu_allocation THEN NoRanges
  ELSE LET cluster_nodes == IF ~cfg.cluster_mode THEN 1 ELSE cfg.cluster_nodes
           offset == IF use_offset
                     THEN cluster_nodes * cfg.cpu_allocation.cores_per_server
                     ELSE 0
           ranges == IF manual.some THEN manual.ranges
                     ELSE calculate_cpu_ranges(cluster_nodes, auto_cores, offset)
       IN [some |-> TRUE, ranges |-> ranges, error |-> FirstParseError(ranges)]

calculate_server_cpu_ranges(cfg) ==
  CalculateAndValidateCpuRanges(cfg, cfg.cpu_allocation.servers,
                                cfg.cpu_allocation.cores_per_server, FALSE)

calculate_client_cpu_ranges(cfg) ==
  CalculateAndValidateCpuRanges(cfg, cfg.cpu_allocation.clients,
                                cfg.cpu_allocation.cores_per_client, TRUE)

SetOf(seq) == { seq[i] : i \in DOMAIN seq }

ErrOverlap == "ValueError: server_cpu_range and client_cpu_range overlap"
ErrTotalCores == "ValueError: Total CPU allocation exceeds system cores"
ErrBothCpuForms ==
  "ValueError: Cannot use both cpu_allocation and server_cpu_range/client_cpu_range"
ErrCoresKeys ==
  "ValueError: cpu_allocation requires both 'cores_per_server' and 'cores_per_client'"
ErrCoresPositive ==
  "ValueError: cores_per_server and cores_per_client must be positive"

\* validate_explicit_cpu_ranges: the error raised, or NoText; max_cores is
\* os.cpu_count(), 0 for None.
validate_explicit_cpu_ranges(server_range, client_range, max_cores) ==
  LET server == parse_core_range(server_range)
      client == parse_core_range(client_range)
  IN IF ~server.ok THEN server.error
     ELSE IF ~client.ok THEN client.error
     ELSE IF SetOf(server.cores) \cap SetOf(client.cores) /= {}
     THEN ErrOverlap
     ELSE IF max_cores /= 0
             /\ Cardinality(SetOf(server.cores) \cup SetOf(client.cores))
                  > max_cores
     THEN ErrTotalCores
     ELSE NoText

\* validate_cpu_allocation: the error raised, or NoText.
validate_cpu_allocation(cfg, max_cores) ==
  LET has_old_fields == cfg.has_server_cpu_range \/ cfg.has_client_cpu_range
      cpu_alloc == cfg.cpu_allocation
  IN IF cfg.has_cpu_allocation /\ has_old_fields THEN ErrBothCpuForms
     ELSE IF cfg.has_cpu_allocation
             /\ (~cpu_alloc.has_cores_per_server
                 \/ ~cpu_alloc.has_cores_per_client)
     THEN ErrCoresKeys
     ELSE IF cfg.has_cpu_allocation
             /\ (cpu_alloc.cores_per_server <= 0
                 \/ cpu_alloc.cores_per_client <= 0)
     THEN ErrCoresPositive
     ELSE IF cfg.has_server_cpu_range /\ cfg.has_client_cpu_range
     THEN validate_explicit_cpu_ranges(cfg.server_cpu_range,
                                       cfg.client_cpu_range, max_cores)
     ELSE NoText

(***************************************************************************)
(* SpecCpu: the functions of utils/cpu_utils.py applied to bounded inputs, *)
(* and the CPU validation of main() followed by the launch of a run.       *)
(***************************************************************************)
MaxChars == 5
MaxCount == 3
MaxCoresPerUnit == 4
MaxOffset == 8

CoreChars == {"0", "1", ",", "-", "a", " "}

CoreStrings == UNION { [1..n -> CoreChars] : n \in 0..MaxChars }

ParseCoreCases ==
  { [op |-> "parse_core_range", arg |-> range_str] :
      range_str \in CoreStrings }

CalculateCases ==
  { [op |-> "calculate_cpu_ranges",
     arg |-> [cluster_nodes |-> cluster_nodes,
              cores_per_unit |-> cores_per_unit, offset |-> offset]] :
      cluster_nodes \in 1..MaxCount, cores_per_unit \in 1..MaxCoresPerUnit,
      offset \in 0..MaxOffset }

RangeStrings ==
  { <<"0", "-", "1">>, <<"1", "-", "2">>, <<"2", "-", "3">>,
    <<"0", ",", "2">> }

RangeLists ==
  { << <<"0", "-", "1">> >>, << <<"0", "-", "1">>, <<"2", "-", "3">> >>,
    << <<"1", "-", "2">> >> }

Absent == [some |-> FALSE, ranges |-> <<>>]
Given(ranges) == [some |-> TRUE, ranges |-> ranges]

NoAllocation ==
  [has_cores_per_server |-> FALSE, cores_per_server |-> 0,
   has_cores_per_client |-> FALSE, cores_per_client |-> 0,
   servers |-> Absent, clients |-> Absent]

Allocations ==
  [has_cores_per_server : {TRUE}, cores_per_server : 1..2,
   has_cores_per_client : {TRUE}, cores_per_client : 1..2,
   servers : {Absent} \cup { Given(ranges) : ranges \in RangeLists },
   clients : {Absent} \cup { Given(ranges) : ranges \in RangeLists }]

BadAllocations ==
  { [NoAllocation EXCEPT !.has_cores_per_server = TRUE,
                         !.cores_per_server = 1],
    [NoAllocation EXCEPT !.has_cores_per_client = TRUE,
                         !.cores_per_client = 1],
    [NoAllocation EXCEPT !.has_cores_per_server = TRUE,
                         !.has_cores_per_client = TRUE,
                         !.cores_per_client = 1] }

CpuConfig(server, client, has_cpu_allocation, cpu_allocation, nodes) ==
  [has_server_cpu_range |-> server /= <<>>, server_cpu_range |-> server,
   has_client_cpu_range |-> client /= <<>>, client_cpu_range |-> client,
   has_cpu_allocation |-> has_cpu_allocation,
   cpu_allocation |-> cpu_allocation,
   cluster_mode |-> nodes > 0, cluster_nodes |-> IF nodes > 0 THEN nodes ELSE 1]

\* Configurations that passed validate_config: the explicit ranges parse.
CpuConfigs ==
  { CpuConfig(server, client, FALSE, NoAllocation, 0) :
      server \in RangeStrings \cup {<<>>},
      client \in RangeStrings \cup {<<>>} }
  \cup { CpuConfig(<<>>, <<>>, TRUE, cpu_allocation, nodes) :
           cpu_allocation \in Allocations \cup BadAllocations,
           nodes \in 0..MaxNodes }
  \cup { CpuConfig(server, <<>>, TRUE, cpu_allocation, 0) :
           server \in RangeStrings, cpu_allocation \in BadAllocations }

ValidateCases ==
  { [op |-> "validate_cpu_allocation", arg |-> cfg] : cfg \in CpuConfigs }

CpuInit ==
  /\ fn_pc = "call"
  /\ fn_rets = <<>>
  /\ fn_call \in ParseCoreCases \cup CalculateCases \cup ValidateCases
  /\ RunnerOnly(PlainRunner)
  /\ AggIdle
  /\ ParIdle
  /\ MoreIdle
  /\ IterIdle
  /\ ExpIdle

CpuReturned(ret, pc) ==
  /\ fn_rets' = Append(fn_rets, ret)
  /\ fn_pc' = pc
  /\ UNCHANGED <<fn_call, aggVars, parVars, runVars, moreVars, iterVars, expVars>>

CallParseCoreRange ==
  /\ fn_pc = "call"
  /\ fn_call.op = "parse_core_range"
  /\ CpuReturned(parse_core_range(fn_call.arg), "done")

CallCalculateCpuRanges ==
  /\ fn_pc = "call"
  /\ fn_call.op = "calculate_cpu_ranges"
  /\ CpuReturned(calculate_cpu_ranges(fn_call.arg.cluster_nodes,
                                      fn_call.arg.cores_per_unit,
                                      fn_call.arg.offset), "done")

\* main(): validate_cpu_allocation(cfg), on a host of max_cores cores
\* (0: os.cpu_count() is None).
ValidateCpuAllocation ==
  /\ fn_pc = "call"
  /\ fn_call.op = "validate_cpu_allocation"
  /\ \E max_cores \in {0, 2, 4} :
       LET error == validate_cpu_allocation(fn_call.arg, max_cores)
       IN CpuReturned(error, IF error = NoText THEN "validated" ELSE "rejected")

\* run_benchmark_matrix and _execute_benchmark_run up to the start of the
\* client: the ranges the servers and the clients are pinned to.
LaunchRun ==
  /\ fn_pc = "validated"
  /\ LET cfg == fn_call.arg
         server == calculate_server_cpu_ranges(cfg)
         client == calculate_client_cpu_ranges(cfg)
     IN IF client.error /= NoText THEN CpuReturned(client.error, "raised")
        ELSE IF server.error /= NoText THEN CpuReturned(server.error, "raised")
        ELSE CpuReturned(
               [server_cpu_ranges |->
                  IF server.some THEN server.ranges
                  ELSE IF cfg.has_server_cpu_range
                       THEN <<cfg.server_cpu_range>> ELSE <<>>,
                client_cpu_ranges |->
                  IF client.some THEN client.ranges
                  ELSE IF cfg.has_client_cpu_range
                       THEN <<cfg.client_cpu_range>> ELSE <<>>],
               "launched")

CpuNext ==
  \/ CallParseCoreRange
  \/ CallCalculateCpuRanges
  \/ ValidateCpuAllocation
  \/ LaunchRun

(***************************************************************************)
(* deep_merge, on a heap of dicts.  A dict object maps each key to Absent  *)
(* (the key is not in the dict), a scalar, or a reference to another dict. *)
(* A tree is the value of a dict, nested dicts included.                   *)
(***************************************************************************)
MergeKeys == <<"a", "b">>

AbsentKey == [kind |-> "absent", v |-> 0]
Scalar(n) == [kind |-> "int", v |-> n]
Ref(addr) == [kind |-> "ref", v |-> addr]
Tree(items) == [kind |-> "map", items |-> items]

RECURSIVE TreeAt(_, _)
TreeAt(heap, addr) ==
  Tree([k \in SetOf(MergeKeys) |->
          IF heap[addr][k].kind = "ref" THEN TreeAt(heap, heap[addr][k].v)
          ELSE heap[addr][k]])

\* Builds on the heap the dict of a tree: the nested dicts first, then the
\* dict itself, whose address is the last of the heap returned.
RECURSIVE StoreItems(_, _, _, _)
RECURSIVE StoreTree(_, _)
StoreItems(heap, items, keys, dict) ==
  IF keys = <<>> THEN [heap |-> Append(heap, dict), addr |-> Len(heap) + 1]
  ELSE LET key == Head(keys)
       IN IF items[key].kind = "map"
          THEN LET sub == StoreTree(heap, items[key])
               IN StoreItems(sub.heap, items, Tail(keys),
                             [dict EXCEPT ![key] = Ref(sub.addr)])
          ELSE StoreItems(heap, items, Tail(keys),
                          [dict EXCEPT ![key] = items[key]])

StoreTree(heap, tree) ==
  StoreItems(heap, tree.items, MergeKeys, [k \in SetOf(MergeKeys) |-> AbsentKey])

\* copy.deepcopy of a dict
DeepCopyDict(heap, addr) == StoreTree(heap, TreeAt(heap, addr))

\* A merge that replaces a nested dict instead of merging into it.
NeverMergeable(old, value) == FALSE

\* key in result and isinstance(result[key], dict) and isinstance(value, dict)
Mergeable(old, value) == old.kind = "ref" /\ value.kind = "ref"

RECURSIVE MergeLoop(_, _, _, _)
RECURSIVE DeepMergeOnHeap(_, _, _)
\* The loop over override.items(), from the keys given on.
MergeLoop(heap, result, override, keys) ==
  IF keys = <<>> THEN heap
  ELSE LET key == Head(keys)
           value == heap[override][key]
       IN IF value.kind = "absent"
          THEN MergeLoop(heap, result, override, Tail(keys))
          ELSE IF Mergeable(heap[result][key], value)
          THEN LET sub == DeepMergeOnHeap(heap, heap[result][key].v, value.v)
               IN MergeLoop([sub.heap EXCEPT ![result][key] = Ref(sub.addr)],
                            result, override, Tail(keys))
          ELSE MergeLoop([heap EXCEPT ![result][key] = value],
                         result, override, Tail(keys))

\* deep_merge(base, override): the heap after the call and the address of
\* the dict returned.
DeepMergeOnHeap(heap, base, override) ==
  LET copied == DeepCopyDict(heap, base)
  IN [heap |-> MergeLoop(copied.heap, copied.addr, override, MergeKeys),
      addr |-> copied.addr]

\* deep_merge on values
deep_merge(base, override) ==
  LET b == StoreTree(<<>>, base)
      o == StoreTree(b.heap, override)
      done == DeepMergeOnHeap(o.heap, b.addr, o.addr)
  IN TreeAt(done.heap, done.addr)

(***************************************************************************)
(* SpecMerge: a caller merges two dicts of nesting depth at most two.      *)
(***************************************************************************)
\* Dicts whose scalars are x and y.
FlatTrees(x, y) ==
  { Tree([k \in SetOf(MergeKeys) |-> IF k = "a" THEN a ELSE b]) :
      a \in {AbsentKey, Scalar(x), Scalar(y)}, b \in {AbsentKey, Scalar(x)} }

NestedTrees(x, y) ==
  { Tree([k \in SetOf(MergeKeys) |-> IF k = "a" THEN a ELSE b]) :
      a \in {AbsentKey, Scalar(x)} \cup FlatTrees(x, y),
      b \in {AbsentKey, Scalar(x)} \cup FlatTrees(x, y) }

MergeInit ==
  /\ exp_pc = "merge"
  /\ \E base \in NestedTrees(1, 2), override \in NestedTrees(3, 4) :
       LET b == StoreTree(<<>>, base)
           o == StoreTree(b.heap, override)
       IN /\ exp_heap = o.heap
          /\ exp_in = [base |-> b.addr, override |-> o.addr,
                       base_value |-> base, override_value |-> override]
  /\ exp_ret = <<>>
  /\ AggIdle
  /\ ParIdle
  /\ MoreIdle
  /\ RunIdle
  /\ FnIdle
  /\ IterIdle

DeepMergeCall ==
  /\ exp_pc = "merge"
  /\ LET done == DeepMergeOnHeap(exp_heap, exp_in.base, exp_in.override)
     IN exp_heap' = done.heap /\ exp_ret' = <<done.addr>>
  /\ exp_pc' = "merged"
  /\ UNCHANGED <<exp_in, aggVars, parVars, runVars, moreVars, fnVars, iterVars>>

MergeNext == DeepMergeCall

(***************************************************************************)
(* MetricsProcessor.write_metrics.  The content of metrics.json is one of: *)
(* no file, an empty file, bytes that are not UTF-8, text that is not      *)
(* JSON, or a JSON value (a list of records, a dict, a string, a number,   *)
(* null).                                                                  *)
(***************************************************************************)
NoFile == [kind |-> "missing", list |-> <<>>]
EmptyFile == [kind |-> "empty", list |-> <<>>]
JsonList(list) == [kind |-> "list", list |-> list]
OtherFile(kind) == [kind |-> kind, list |-> <<>>]

ErrNoExtend == "AttributeError: object has no attribute 'extend'"
ErrDecode == "UnicodeDecodeError: 'utf-8' codec can't decode byte"

\* Lines 54-61: the value of `metrics` after the read, or the exception.
LoadMetrics(file) ==
  CASE file.kind \in {"missing", "empty", "not_json"} ->
         [raised |-> NoText, is_list |-> TRUE, list |-> <<>>]
    [] file.kind = "not_utf8" ->
         [raised |-> ErrDecode, is_list |-> FALSE, list |-> <<>>]
    [] file.kind = "list" ->
         [raised |-> NoText, is_list |-> TRUE, list |-> file.list]
    [] OTHER -> [raised |-> NoText, is_list |-> FALSE, list |-> <<>>]

\* write_metrics: the file afterwards and the exception raised, if any.
write_metrics(file, new_metrics) ==
  LET loaded == LoadMetrics(file)
  IN IF loaded.raised /= NoText THEN [file |-> file, raised |-> loaded.raised]
     ELSE IF ~loaded.is_list THEN [file |-> file, raised |-> ErrNoExtend]
     ELSE [file |-> JsonList(loaded.list \o new_metrics), raised |-> NoText]

(***************************************************************************)
(* SpecSink: runs write their records to the same metrics.json.            *)
(***************************************************************************)
MaxWrites == 2
MaxRecords == 2

SinkRecords == {"r1", "r2"}

RecordLists == UNION { [1..n -> SinkRecords] : n \in 0..MaxRecords }

ExistingFiles ==
  { NoFile, EmptyFile, OtherFile("not_utf8"), OtherFile("not_json"),
    OtherFile("dict"), OtherFile("string"), OtherFile("number"),
    OtherFile("null") }
  \cup { JsonList(list) : list \in RecordLists }

NoWrite == [count |-> 0, before |-> NoFile, records |-> <<>>, raised |-> NoText]

SinkInit ==
  /\ sink_pc = "write"
  /\ metrics_file \in ExistingFiles
  /\ sink_last = NoWrite
  /\ AggIdle
  /\ ParIdle
  /\ RunIdle
  /\ FnIdle
  /\ IterIdle
  /\ ExpIdle
  /\ UnitIdle

\* _finalize_metrics with a sink and a non-empty list of records.
WriteMetrics ==
  /\ sink_pc = "write"
  /\ sink_last.count < MaxWrites
  /\ \E records \in RecordLists \ {<<>>} :
       LET done == write_metrics(metrics_file, records)
       IN /\ metrics_file' = done.file
          /\ sink_last' = [count |-> sink_last.count + 1,
                           before |-> metrics_file, records |-> records,
                           raised |-> done.raised]
          /\ sink_pc' = IF done.raised = NoText THEN "write" ELSE "raised"
  /\ UNCHANGED <<aggVars, parVars, runVars, fnVars, iterVars, expVars,
                 unitVars>>

SinkNext == WriteMetrics

(***************************************************************************)
(* benchmark.validate_config.  A configuration is a record with one field  *)
(* per key; a value carries its Python type, its integers and its strings, *)
(* and the type "absent" stands for a key the dict does not have.          *)
(***************************************************************************)
REQUIRED_KEYS ==
  <<"keyspacelen", "data_sizes", "pipelines", "clients", "commands",
    "cluster_mode", "tls_mode", "warmup">>

Val(t, ints, strs) == [t |-> t, ints |-> ints, strs |-> strs]
NoKey == Val("absent", <<>>, <<>>)
PyNone == Val("none", <<>>, <<>>)
PyInt(n) == Val("int", <<n>>, <<>>)
PyInts(ints) == Val("list", ints, <<>>)
PyStrs(strs) == Val("list", <<>>, strs)
PyStr(str) == Val("str", <<>>, <<str>>)
PyChars(chars) == Val("str", <<>>, chars)
PyBool(b) == Val("bool", <<IF b THEN 1 ELSE 0>>, <<>>)

In(cfg, key) == cfg[key].t /= "absent"

ErrNoShape == "Config must have either 'commands' or 'test_groups'"
ErrMissingKey == "Missing required key"
ErrNoLoad == "Either 'requests' or 'duration' must be provided"
ErrBothLoads == "Cannot specify both 'requests' and 'duration'"
ErrIntList == "must be a list of positive integers"
ErrPositiveInt == "must be a positive integer"
ErrNonNegativeInt == "must be a non-negative integer"
ErrIntOrList == "must be int or list of positive integers"
ErrCommands == "'commands' must be a non-empty list of non-empty strings"
ErrGroupsList == "'test_groups' must be a non-empty list"
ErrGroupDict == "test_groups[i] must be a dict"
ErrGroupScenarios == "test_groups[i] missing 'scenarios' field"
ErrScenariosList == "test_groups[i].scenarios must be a non-empty list"
ErrCpuRange == "Invalid cpu range"
ErrStartupArgs == "'module_startup_args' must be string"
ErrPort == "'port' must be between 1 and 65535"

\* isinstance(x, int) holds of a bool as well.
IsInt(value) == value.t \in {"int", "bool"}

\* A list of integers: no string among its items.
AllInts(value) == value.t = "list" /\ value.strs = <<>>

_validate_positive_int_list(value) ==
  IF AllInts(value) /\ \A i \in DOMAIN value.ints : value.ints[i] > 0
  THEN NoText ELSE ErrIntList

_validate_positive_int(value) ==
  IF IsInt(value) /\ value.ints[1] > 0 THEN NoText ELSE ErrPositiveInt

_validate_non_negative_int(value) ==
  IF IsInt(value) /\ value.ints[1] >= 0 THEN NoText ELSE ErrNonNegativeInt

_validate_positive_int_or_list(value) ==
  IF IsInt(value)
  THEN (IF value.ints[1] > 0 THEN NoText ELSE ErrIntOrList)
  ELSE IF value.t = "list"
  THEN (IF value.strs = <<>> /\ \A i \in DOMAIN value.ints : value.ints[i] > 0
        THEN NoText ELSE ErrIntOrList)
  ELSE ErrIntOrList

_validate_cpu_range(value) ==
  IF value.t /= "str" THEN ErrCpuRange
  ELSE IF parse_core_range(value.strs).ok THEN NoText ELSE ErrCpuRange

\* x.strip() of a command string.
Blank(str) == str \in {"", " "}

CommandsValid(value) ==
  /\ value.t = "list"
  /\ value.ints = <<>>
  /\ value.strs /= <<>>
  /\ \A i \in DOMAIN value.strs : ~Blank(value.strs[i])

parse_bool(value) ==
  CASE value.t = "bool" -> value
    [] value.t = "str" -> PyBool(value.strs[1] \in {"yes", "true", "1"})
    [] value.t = "int" -> PyBool(value.ints[1] /= 0)
    [] value.t = "list" -> PyBool(value.ints /= <<>> \/ value.strs /= <<>>)
    [] OTHER -> PyBool(FALSE)

\* The groups of a configuration: its type and, per group, the type of the
\* group, whether it has "scenarios", the type of that and its length.
Groups(t, groups) == [t |-> t, groups |-> groups]
NoGroups == Groups("absent", <<>>)
Group(t, scenarios) == [t |-> t, scenarios |-> scenarios]

FirstGroupError(groups) ==
  LET bad(i) ==
        \/ groups[i].t /= "dict"
        \/ groups[i].scenarios.t /= "list"
        \/ groups[i].scenarios.ints = <<>>
  IN IF \A i \in DOMAIN groups : ~bad(i) THEN NoText
     ELSE LET i == CHOOSE i \in DOMAIN groups :
                     bad(i) /\ \A j \in 1..(i - 1) : ~bad(j)
          IN IF groups[i].t /= "dict" THEN ErrGroupDict
             ELSE IF groups[i].scenarios.t = "absent" THEN ErrGroupScenarios
             ELSE ErrScenariosList

validate_test_groups(cfg) ==
  IF cfg.test_groups.t = "absent" THEN NoText
  ELSE IF cfg.test_groups.t /= "list" \/ cfg.test_groups.groups = <<>>
  THEN ErrGroupsList
  ELSE FirstGroupError(cfg.test_groups.groups)

\* The first of the texts that is an error.
FirstError(errors) ==
  IF \A i \in DOMAIN errors : errors[i] = NoText THEN NoText
  ELSE errors[CHOOSE i \in DOMAIN errors :
                errors[i] /= NoText /\ \A j \in 1..(i - 1) : errors[j] = NoText]

\* Lines 254-256: a top-level "scenarios" becomes the one group.
WithScenariosAsGroup(cfg) ==
  IF cfg.scenarios.t /= "absent" /\ cfg.test_groups.t = "absent"
  THEN [cfg EXCEPT !.test_groups =
                     Groups("list", <<Group("dict", cfg.scenarios)>>),
                   !.scenarios = NoKey]
  ELSE cfg

\* Lines 258-262.
ShapeError(has_commands, has_test_groups) ==
  IF ~(has_commands \/ has_test_groups) THEN ErrNoShape ELSE NoText

\* Lines 264-291.
CommandsShapeError(cfg) ==
  LET has_requests == In(cfg, "requests") /\ cfg.requests.t /= "none"
      has_duration == In(cfg, "duration") /\ cfg.duration.t /= "none"
  IN IF \E i \in DOMAIN REQUIRED_KEYS : ~In(cfg, REQUIRED_KEYS[i])
     THEN ErrMissingKey
     ELSE IF ~has_requests /\ ~has_duration THEN ErrNoLoad
     ELSE IF has_requests /\ has_duration THEN ErrBothLoads
     ELSE FirstError(<<_validate_positive_int_list(cfg.keyspacelen),
                       _validate_positive_int_list(cfg.data_sizes),
                       _validate_positive_int_list(cfg.pipelines),
                       _validate_positive_int_list(cfg.clients),
                       _validate_non_negative_int(cfg.warmup),
                       IF CommandsValid(cfg.commands) THEN NoText
                       ELSE ErrCommands>>)

\* Lines 296-311.
OptionalKeysError(cfg) ==
  LET check(key, error) == IF In(cfg, key) THEN error ELSE NoText
  IN FirstError(
       <<check("io_threads", _validate_positive_int_or_list(cfg.io_threads)),
         check("benchmark_threads",
               _validate_positive_int(cfg.benchmark_threads)),
         IF In(cfg, "requests") /\ cfg.requests.t /= "none"
         THEN _validate_positive_int_list(cfg.requests) ELSE NoText,
         IF In(cfg, "duration") /\ cfg.duration.t /= "none"
         THEN _validate_positive_int(cfg.duration) ELSE NoText,
         check("server_cpu_range", _validate_cpu_range(cfg.server_cpu_range)),
         check("client_cpu_range", _validate_cpu_range(cfg.client_cpu_range)),
         check("module_startup_args",
               IF cfg.module_startup_args.t = "str" THEN NoText
               ELSE ErrStartupArgs),
         check("port",
               IF /\ cfg.port.t = "int"
                  /\ cfg.port.ints[1] > 0
                  /\ cfg.port.ints[1] <= 65535
               THEN NoText ELSE ErrPort)>>)

\* Lines 313-316.
WithBools(cfg) ==
  [cfg EXCEPT
     !.cluster_mode = IF In(cfg, "cluster_mode") /\ @.t /= "list"
                      THEN parse_bool(@) ELSE @,
     !.tls_mode = IF In(cfg, "tls_mode") THEN parse_bool(@) ELSE @]

\* validate_config: the exception raised, if any, and the dict afterwards.
validate_config(cfg0) ==
  LET cfg == WithScenariosAsGroup(cfg0)
      has_commands == In(cfg, "commands")
      has_test_groups == In(cfg, "test_groups")
      error ==
        FirstError(<<ShapeError(has_commands, has_test_groups),
                     IF has_commands THEN CommandsShapeError(cfg) ELSE NoText,
                     IF has_test_groups THEN validate_test_groups(cfg)
                     ELSE NoText,
                     OptionalKeysError(cfg)>>)
  IN [raised |-> error, cfg |-> IF error = NoText THEN WithBools(cfg) ELSE cfg]

(***************************************************************************)
(* SpecConfig: main loads one configuration and decides the mode of the    *)
(* run from it.                                                            *)
(***************************************************************************)
AScenarios == Val("list", <<1>>, <<>>)

FlatConfig ==
  [keyspacelen |-> PyInts(<<1>>), data_sizes |-> PyInts(<<1>>),
   pipelines |-> PyInts(<<1>>), clients |-> PyInts(<<1>>),
   commands |-> PyStrs(<<"GET">>), cluster_mode |-> PyBool(FALSE),
   tls_mode |-> PyBool(FALSE), warmup |-> PyInt(0),
   requests |-> PyInts(<<1>>), duration |-> NoKey,
   scenarios |-> NoKey, test_groups |-> NoGroups,
   io_threads |-> NoKey, benchmark_threads |-> NoKey,
   server_cpu_range |-> NoKey, client_cpu_range |-> NoKey,
   module_startup_args |-> NoKey, port |-> NoKey]

GroupValues ==
  { NoGroups, Groups("list", <<Group("dict", AScenarios)>>),
    Groups("list", <<>>), Groups("str", <<>>),
    Groups("list", <<Group("dict", NoKey)>>),
    Groups("list", <<Group("dict", AScenarios),
                     Group("dict", PyInts(<<>>))>>),
    Groups("list", <<Group("str", NoKey)>>) }

CommandValues ==
  { NoKey, PyStrs(<<"GET">>), PyStrs(<<"GET", " ">>), PyStrs(<<>>),
    PyStr("GET") }

\* One key of the flat configuration set to a value.
Edits ==
  { [key |-> "warmup", value |-> value] :
      value \in {PyInt(0), PyInt(-1), NoKey} }
  \cup { [key |-> "clients", value |-> value] :
           value \in {PyInts(<<0>>), PyStrs(<<"x">>), PyInt(1)} }
  \cup { [key |-> "cluster_mode", value |-> value] :
           value \in {PyStr("yes"), PyStr("no"), PyInts(<<0, 1>>), NoKey} }
  \cup { [key |-> "tls_mode", value |-> value] :
           value \in {PyStr("true"), PyInt(0)} }
  \cup { [key |-> "io_threads", value |-> value] :
           value \in {PyInt(2), PyInts(<<1, 0>>), PyStr("2")} }
  \cup { [key |-> "benchmark_threads", value |-> value] :
           value \in {PyInt(2), PyInt(0)} }
  \cup { [key |-> "server_cpu_range", value |-> value] :
           value \in {PyChars(<<"0", "-", "1">>), PyChars(<<"1", "-", "0">>),
                      PyInt(0)} }
  \cup { [key |-> "client_cpu_range", value |-> value] :
           value \in {PyChars(<<"0", ",", "1">>), PyChars(<<"a">>)} }
  \cup { [key |-> "module_startup_args", value |-> value] :
           value \in {PyStr("--x"), PyInt(1)} }
  \cup { [key |-> "port", value |-> value] :
           value \in {PyInt(6379), PyInt(0), PyInt(65536), PyStr("1")} }

LoadValues ==
  { [requests |-> requests, duration |-> duration] :
      requests \in {NoKey, PyNone, PyInts(<<1>>), PyInts(<<0>>)},
      duration \in {NoKey, PyNone, PyInt(5), PyInt(0)} }

Configs ==
  { [[[FlatConfig EXCEPT ![edit.key] = edit.value]
        EXCEPT !.commands = commands, !.test_groups = test_groups,
               !.scenarios = scenarios]
        EXCEPT !.requests = load.requests, !.duration = load.duration] :
      edit \in Edits, commands \in CommandValues,
      test_groups \in GroupValues, scenarios \in {NoKey, AScenarios},
      load \in LoadValues }

ConfigInit ==
  /\ fn_pc = "load"
  /\ fn_rets = <<>>
  /\ fn_call \in Configs
  /\ RunnerOnly(PlainRunner)
  /\ AggIdle
  /\ ParIdle
  /\ MoreIdle
  /\ IterIdle
  /\ ExpIdle

\* load_configs: the configuration is validated and kept as it is left.
LoadConfigs ==
  /\ fn_pc = "load"
  /\ LET done == validate_config(fn_call)
     IN /\ fn_call' = done.cfg
        /\ fn_rets' = <<done.raised>>
        /\ fn_pc' = IF done.raised = NoText THEN "loaded" ELSE "rejected"
  /\ UNCHANGED <<aggVars, parVars, runVars, moreVars, iterVars, expVars>>

\* main, lines 756-770: the mode the core is run in.
ProcessConfig ==
  /\ fn_pc = "loaded"
  /\ fn_rets' = Append(fn_rets,
                       [uses_test_groups |-> In(fn_call, "test_groups"),
                        has_commands |-> In(fn_call, "commands")])
  /\ fn_pc' = "running"
  /\ UNCHANGED <<fn_call, aggVars, parVars, runVars, moreVars, iterVars,
                 expVars>>

ConfigNext == LoadConfigs \/ ProcessConfig

(***************************************************************************)
(* SpecUnit: _run_single_scenario step by step.  unit_trace holds the      *)
(* steps of the unit in the order they were made, unit_local the locals of *)
(* the call, unit_out how the call ended.                                  *)
(***************************************************************************)
MaxUnitCalls == 2
MaxSetupCommands == 2

Event(step, detail, ok) == [step |-> step, detail |-> detail, ok |-> ok]

\* Line 837.
ProfileId(scenario, group_id, config_suffix) ==
  "group" \o ToString(group_id) \o "_" \o scenario.type \o "_" \o scenario.id
    \o "_" \o config_suffix

\* A sink that is constructed whatever the profiling set says.
MetricsProcessorAlways(profiling_enabled) == TRUE

\* Lines 778-788: the sink is constructed when profiling is not enabled.
MetricsProcessorConstructed(profiling_enabled) == ~profiling_enabled

\* Lines 769-776.
ProfilerConstructed(profiling_enabled) == profiling_enabled

SetupCommands == <<"FT.CREATE idx", "HSET doc:1", "HSET doc:2", "HSET doc:3">>

SetupCommandLists ==
  { SubSeq(SetupCommands, 1, n) : n \in 0..MaxSetupCommands }

\* The scenarios of a unit; "delays" is an override without an "enabled" key.
UnitScenarios ==
  { [id |-> "s1", type |-> type, command |-> "FT.SEARCH idx *",
     warmup |-> warmup, cluster_execution |-> e.cluster_execution,
     parallel_clients |-> e.parallel_clients, flush_before |-> flush_before,
     setup_commands |-> setup_commands, profiling |-> profiling] :
      type \in {"read", "write"}, warmup \in {0, 60},
      e \in Executions, flush_before \in BOOLEAN,
      setup_commands \in SetupCommandLists,
      profiling \in {"none", "on", "off", "delays"} }

\* Without cluster mode the nodes and the ranges are not looked at.
UnitRunners ==
  { r \in Runners :
      /\ r.uses_test_groups
      /\ ~r.server_launcher
      /\ (~r.cluster_mode =>
            r.cluster_nodes = 1 /\ r.client_cpu_ranges = <<>>) }

NoLocals ==
  [calls |-> 0, next_setup |-> 1, scenario_profiling_enabled |-> FALSE,
   profile_id |-> NoText, stdout |-> <<>>, aggregated_row |-> NoRow,
   has_proc |-> FALSE, phase |-> "none", text |-> NoText]

NoScenario == [scenario |-> <<>>, group_id |-> 0, config_suffix |-> NoText]

NoOut == Out(NoText, NoRecord, "pending", NoText)

UnitInit ==
  /\ unit_pc = "start"
  /\ unit_in = NoScenario
  /\ unit_local = NoLocals
  /\ unit_trace = <<>>
  /\ unit_out = NoOut
  /\ run_pc = "idle"
  /\ runner \in UnitRunners
  /\ metrics_processor = FALSE
  /\ profiler = FALSE
  /\ unit_count = 0
  /\ metric_json = <<>>
  /\ written = <<>>
  /\ run_raised = NoText
  /\ last = <<>>
  /\ AggIdle
  /\ ParIdle
  /\ FnIdle
  /\ IterIdle
  /\ ExpIdle
  /\ SinkIdle

UnitRest ==
  <<run_pc, runner, unit_count, metric_json, written, run_raised, last,
    aggVars, parVars, fnVars, iterVars, expVars, sinkVars>>

\* A step inside a unit: its position, locals and trace change.
UnitStep(pc, locals, events) ==
  /\ unit_pc' = pc
  /\ unit_local' = locals
  /\ unit_trace' = unit_trace \o events
  /\ UNCHANGED <<unit_in, unit_out, metrics_processor, profiler, UnitRest>>

\* An exception inside the try block: on to the handler.
UnitRaise(phase, text, events) ==
  UnitStep("except", [unit_local EXCEPT !.phase = phase, !.text = text],
           events)

\* The call ends: it returns, or an exception leaves it.
UnitEnd(out, events) ==
  /\ unit_pc' = IF out.raised = NoText THEN "returned" ELSE "raised"
  /\ unit_out' = out
  /\ unit_trace' = unit_trace \o events
  /\ UNCHANGED <<unit_in, unit_local, metrics_processor, profiler, UnitRest>>

\* Lines 308-312: the profiler and the sink of the run.
SetupProfilingAndMetrics ==
  /\ unit_pc = "start"
  /\ profiler' = ProfilerConstructed(runner.profiling_enabled)
  /\ metrics_processor' = MetricsProcessorConstructed(runner.profiling_enabled)
  /\ unit_pc' = "ready"
  /\ UNCHANGED <<unit_in, unit_local, unit_trace, unit_out, UnitRest>>

\* Lines 315-323 and 806-821: the iterator yields a unit and the executor
\* is entered.
BeginUnit ==
  /\ unit_pc = "ready"
  /\ unit_local.calls < MaxUnitCalls
  /\ \E scenario \in UnitScenarios :
       unit_in' = [scenario |-> scenario, group_id |-> unit_local.calls + 1,
                   config_suffix |-> runner.current_config_set]
  /\ unit_local' = [NoLocals EXCEPT !.calls = unit_local.calls + 1]
  /\ unit_trace' = <<>>
  /\ unit_out' = NoOut
  /\ unit_pc' = "flush"
  /\ UNCHANGED <<metrics_processor, profiler, UnitRest>>

\* Lines 823-824.
FlushBefore ==
  /\ unit_pc = "flush"
  /\ IF unit_in.scenario.flush_before
     THEN \/ UnitStep("setup", unit_local, <<Event("flush", NoText, TRUE)>>)
          \/ UnitEnd(Propagated("flush", ErrFlush),
                     <<Event("flush", NoText, FALSE)>>)
     ELSE UnitStep("setup", unit_local, <<>>)

\* A loop over the commands from the last to the first.
SetupCommandReversed(cmds, i) == cmds[Len(cmds) - i + 1]

\* Line 826: the i-th command the loop takes.
SetupCommandAt(cmds, i) == cmds[i]

\* A failure of a setup command that is turned into a marker.
SetupFailureCaught(scenario, group_id, text) ==
  Caught(scenario, group_id, "setup", text)

\* Lines 965-967 and 826-827: the exception is logged and raised again, and
\* nothing around the loop catches it.
SetupFailure(scenario, group_id, text) == Propagated("setup", text)

\* Lines 826-827: one turn of the loop, or its end.
SetupCommand ==
  /\ unit_pc = "setup"
  /\ LET cmds == unit_in.scenario.setup_commands
         i == unit_local.next_setup
     IN IF i > Len(cmds) THEN UnitStep("resolve", unit_local, <<>>)
        ELSE \/ UnitStep("setup", [unit_local EXCEPT !.next_setup = i + 1],
                         <<Event("setup", SetupCommandAt(cmds, i), TRUE)>>)
             \/ UnitEnd(SetupFailure(unit_in.scenario, unit_in.group_id,
                                     ErrSetup),
                        <<Event("setup", SetupCommandAt(cmds, i), FALSE)>>)

\* Lines 829-839.
ResolveProfiling ==
  /\ unit_pc = "resolve"
  /\ UnitStep("warmup",
              [unit_local EXCEPT
                 !.scenario_profiling_enabled =
                   ScenarioProfilingEnabled(unit_in.scenario),
                 !.profile_id =
                   ProfileId(unit_in.scenario, unit_in.group_id,
                             unit_in.config_suffix)],
              <<>>)

\* The exceptions an invocation of the client can raise.
InvocationErrors(scenario) ==
  IF ShouldUseParallel(scenario) THEN ParallelOutcomes(scenario) \ {NoText}
  ELSE RunErrors

\* Whether an invocation of the client can return.
InvocationReturns(scenario) ==
  ShouldUseParallel(scenario) => NoText \in ParallelOutcomes(scenario)

Path(scenario) == IF ShouldUseParallel(scenario) THEN "parallel" ELSE "single"

\* Lines 841-863.
Warmup ==
  /\ unit_pc = "warmup"
  /\ LET scenario == unit_in.scenario
     IN IF scenario.warmup > 0
        THEN \/ /\ InvocationReturns(scenario)
                /\ UnitStep("profile_start", unit_local,
                            <<Event("warmup", Path(scenario), TRUE)>>)
             \/ \E e \in InvocationErrors(scenario) :
                  UnitRaise("warmup", e,
                            <<Event("warmup", Path(scenario), FALSE)>>)
        ELSE UnitStep("profile_start", unit_local, <<>>)

\* Lines 865-876.
ProfilerStart ==
  /\ unit_pc = "profile_start"
  /\ IF profiler /\ unit_local.scenario_profiling_enabled
     THEN \/ UnitStep("measure", unit_local,
                      <<Event("profile_start", unit_local.profile_id, TRUE)>>)
          \/ UnitRaise("profile_start", ErrThread,
                       <<Event("profile_start", unit_local.profile_id,
                               FALSE)>>)
     ELSE UnitStep("measure", unit_local, <<>>)

\* Lines 878-892.
MeasuredInvocation ==
  /\ unit_pc = "measure"
  /\ LET scenario == unit_in.scenario
         done == <<Event("measure", Path(scenario), TRUE)>>
     IN \/ /\ ShouldUseParallel(scenario)
           /\ NoText \in ParallelOutcomes(scenario)
           /\ UnitStep("profile_stop",
                       [unit_local EXCEPT
                          !.aggregated_row = FoundRow(SampleRow)],
                       done)
        \/ /\ ~ShouldUseParallel(scenario)
           /\ \E stdout \in UnitStdouts :
                UnitStep("profile_stop",
                         [unit_local EXCEPT
                            !.has_proc = TRUE, !.stdout = stdout],
                         done)
        \/ \E e \in InvocationErrors(scenario) :
             UnitRaise("measure", e,
                       <<Event("measure", Path(scenario), FALSE)>>)

\* Lines 894-895.
ProfilerStop ==
  /\ unit_pc = "profile_stop"
  /\ IF profiler /\ unit_local.scenario_profiling_enabled
     THEN UnitStep("parse", unit_local,
                   <<Event("profile_stop", unit_local.profile_id, TRUE)>>)
     ELSE UnitStep("parse", unit_local, <<>>)

\* Lines 897-940 and 955.
ParseAndReturn ==
  /\ unit_pc = "parse"
  /\ LET scenario == unit_in.scenario
         group_id == unit_in.group_id
     IN IF ~unit_local.has_proc /\ ~unit_local.aggregated_row.found
        THEN UnitEnd(Out(NoText,
                         ScenarioExcept(scenario, group_id, "No results"),
                         "none", NoText),
                     <<>>)
        ELSE IF ~metrics_processor
        THEN UnitEnd(Measured(scenario, group_id, NoRow), <<>>)
        ELSE IF unit_local.aggregated_row.found
        THEN UnitEnd(Measured(scenario, group_id, unit_local.aggregated_row),
                     <<Event("parse", "aggregated", TRUE)>>)
        ELSE \/ UnitEnd(Measured(scenario, group_id,
                                 ParseCsvRow(unit_local.stdout)),
                        <<Event("parse", "stdout", TRUE)>>)
             \/ UnitRaise("parse", ErrCsv, <<Event("parse", "stdout", FALSE)>>)

\* Lines 942-955.
HandleException ==
  /\ unit_pc = "except"
  /\ UnitEnd(Caught(unit_in.scenario, unit_in.group_id, unit_local.phase,
                    unit_local.text),
             <<>>)

\* Lines 315-325: the loop goes on to the next unit (what it collects is
\* followed in Spec).
NextIteration ==
  /\ unit_pc = "returned"
  /\ unit_pc' = "ready"
  /\ unit_in' = NoScenario
  /\ unit_local' = [NoLocals EXCEPT !.calls = unit_local.calls]
  /\ unit_trace' = <<>>
  /\ unit_out' = NoOut
  /\ UNCHANGED <<metrics_processor, profiler, UnitRest>>

UnitNext ==
  \/ SetupProfilingAndMetrics
  \/ BeginUnit
  \/ FlushBefore
  \/ SetupCommand
  \/ ResolveProfiling
  \/ Warmup
  \/ ProfilerStart
  \/ MeasuredInvocation
  \/ ProfilerStop
  \/ ParseAndReturn
  \/ HandleException
  \/ NextIteration

(***************************************************************************)
(* SpecFlat: _execute_simple_scenario step by step.  An invocation of the  *)
(* load generator is a start and an end: subprocess.run returns when the   *)
(* process has exited.  unit_local.running holds the argument vectors of   *)
(* the processes that have been started and have not exited.               *)
(***************************************************************************)
SimpleRunners ==
  { [server_launcher |-> launcher] @@ r :
      r \in BuildRunners, launcher \in BOOLEAN }

\* The units _iterate_simple_scenarios yields (lines 365-378).
FlatUnits ==
  { [format |-> "simple", run_num |-> 0, requests |-> load.requests,
     keyspacelen |-> Just(2000), data_size |-> Just(16),
     pipeline |-> Just(4), clients |-> Just(50), command |-> command,
     warmup |-> warmup, duration |-> load.duration, seed |-> Just(seed),
     needs_population |-> command \in READ_COMMANDS,
     populate_command |-> ReadPopulateMap(command)] :
      load \in { [requests |-> Just(1000), duration |-> None],
                 [requests |-> None, duration |-> Just(30)] },
      command \in {"GET", "SET", "XRANGE", "LRANGE"},
      warmup \in {Just(0), Just(5)}, seed \in {7, 424242} }

TlsOf(tls_mode) == IF tls_mode THEN "True" ELSE "False"

\* A population run whose keys are random.
PopulateCallRandom(data, write_cmd) ==
  [has_scenario |-> FALSE, tls |-> TlsOf(runner.tls_mode),
   requests |-> IF data.requests.some THEN data.requests ELSE data.keyspacelen,
   keyspacelen |-> data.keyspacelen, data_size |-> data.data_size,
   pipeline |-> data.pipeline, clients |-> data.clients,
   command |-> write_cmd, seed_val |-> data.seed, sequential |-> FALSE,
   duration |-> None, warmup |-> None, port |-> None, cpu_range |-> NoText]

\* Lines 460-473 and 288-299: the arguments of the population run.
PopulateCall(data, write_cmd) ==
  [has_scenario |-> FALSE, tls |-> TlsOf(runner.tls_mode),
   requests |-> IF data.requests.some THEN data.requests ELSE data.keyspacelen,
   keyspacelen |-> data.keyspacelen, data_size |-> data.data_size,
   pipeline |-> data.pipeline, clients |-> data.clients,
   command |-> write_cmd, seed_val |-> data.seed, sequential |-> TRUE,
   duration |-> None, warmup |-> None, port |-> None, cpu_range |-> NoText]

\* Lines 476-488: the arguments of the measured run.
MeasureCall(data) ==
  [has_scenario |-> FALSE, tls |-> TlsOf(runner.tls_mode),
   requests |-> data.requests, keyspacelen |-> data.keyspacelen,
   data_size |-> data.data_size, pipeline |-> data.pipeline,
   clients |-> data.clients, command |-> data.command,
   seed_val |-> data.seed, sequential |-> FALSE, duration |-> data.duration,
   warmup |-> data.warmup, port |-> None, cpu_range |-> NoText]

NoFlatLocals == [running |-> <<>>, stdout |-> <<>>]

FlatInit ==
  /\ unit_pc = "clean"
  /\ unit_in \in FlatUnits
  /\ unit_local = NoFlatLocals
  /\ unit_trace = <<>>
  /\ unit_out = NoOut
  /\ run_pc = "idle"
  /\ runner \in SimpleRunners
  /\ metrics_processor = TRUE
  /\ profiler = FALSE
  /\ unit_count = 0
  /\ metric_json = <<>>
  /\ written = <<>>
  /\ run_raised = NoText
  /\ last = <<>>
  /\ AggIdle
  /\ ParIdle
  /\ FnIdle
  /\ IterIdle
  /\ ExpIdle
  /\ SinkIdle

\* Lines 452-456: _restart_server (shutdown, launch, wait for ready) with a
\* launcher, else _flush_database; a failure of either is raised.
RestartOrFlush ==
  /\ unit_pc = "clean"
  /\ LET how == IF runner.server_launcher THEN "restart" ELSE "flush"
         error == IF runner.server_launcher THEN ErrServerStart ELSE ErrFlush
     IN \/ UnitStep("populate", unit_local, <<Event(how, <<>>, TRUE)>>)
        \/ UnitEnd(Propagated("flush", error), <<Event(how, <<>>, FALSE)>>)

\* Lines 459-473 and 281-299: the population run is started, or there is
\* none.
PopulateStart ==
  /\ unit_pc = "populate"
  /\ LET write_cmd == ReadPopulateMap(unit_in.command)
     IN IF unit_in.needs_population /\ write_cmd /= NoText
        THEN LET argv == BuildBenchmarkCommand(PopulateCall(unit_in, write_cmd),
                                               0)
             IN UnitStep("populating",
                         [unit_local EXCEPT !.running = Append(@, argv)],
                         <<Event("populate_start", argv, TRUE)>>)
        ELSE UnitStep("measure", unit_local, <<>>)

\* Line 300: subprocess.run returns; a non-zero exit is raised.
PopulateEnd ==
  /\ unit_pc = "populating"
  /\ LET argv == unit_local.running[1]
         exited == [unit_local EXCEPT !.running = <<>>]
     IN \/ UnitStep("measure", exited, <<Event("populate_end", argv, TRUE)>>)
        \/ \E e \in RunErrors :
             /\ unit_local' = exited
             /\ unit_pc' = "raised"
             /\ unit_out' = Propagated("populate", e)
             /\ unit_trace' = Append(unit_trace,
                                     Event("populate_end", argv, FALSE))
             /\ UNCHANGED <<unit_in, metrics_processor, profiler, UnitRest>>

\* Lines 476-492: the measured run is started.
MeasureStart ==
  /\ unit_pc = "measure"
  /\ LET argv == BuildBenchmarkCommand(MeasureCall(unit_in), 0)
     IN UnitStep("measuring",
                 [unit_local EXCEPT !.running = Append(@, argv)],
                 <<Event("measure_start", argv, TRUE)>>)

\* Lines 490-492.
MeasureEnd ==
  /\ unit_pc = "measuring"
  /\ LET argv == unit_local.running[1]
     IN \/ \E stdout \in UnitStdouts :
             UnitStep("parse",
                      [unit_local EXCEPT !.running = <<>>, !.stdout = stdout],
                      <<Event("measure_end", argv, TRUE)>>)
        \/ \E e \in RunErrors :
             /\ unit_local' = [unit_local EXCEPT !.running = <<>>]
             /\ unit_pc' = "raised"
             /\ unit_out' = Propagated("measure", e)
             /\ unit_trace' = Append(unit_trace,
                                     Event("measure_end", argv, FALSE))
             /\ UNCHANGED <<unit_in, metrics_processor, profiler, UnitRest>>

\* Lines 501-525: the first row of the command, or nothing; an exception of
\* the parsing is logged.
ParseSimple ==
  /\ unit_pc = "parse"
  /\ \/ UnitEnd(Out(NoText,
                    CreateMetrics(SimpleRow(unit_local.stdout),
                                  unit_in.command, CommitTime),
                    "none", NoText),
                <<>>)
     \/ UnitEnd(Out(NoText, NoRecord, "parse", ErrCsv), <<>>)

FlatNext ==
  \/ RestartOrFlush
  \/ PopulateStart
  \/ PopulateEnd
  \/ MeasureStart
  \/ MeasureEnd
  \/ ParseSimple

(***************************************************************************)
(* The readiness polls: ClientRunner.wait_for_server_ready,                *)
(* ServerLauncher._wait_for_server_ready, _wait_for_cluster_ready and the  *)
(* loop of _launch_cluster_node.  Time is counted in ticks of half a       *)
(* second.  The target answers ready from some time on, or never.          *)
(***************************************************************************)
MaxTimeout == 2
NodeReadyTimeout == 30
TicksPerSecond == 2
Never == -1

PollKinds == {"client", "launcher", "cluster", "node"}

\* time.sleep(1), and time.sleep(0.5) in _launch_cluster_node.
SleepTicks(kind) == IF kind = "node" THEN 1 ELSE TicksPerSecond

ErrClusterReady == "Cluster failed to become ready"

\* What the end of the loop without an answer raises: NoText where the code
\* goes on without raising.
TimeoutError(kind) ==
  CASE kind \in {"client", "launcher"} -> ErrServerStart
    [] kind = "cluster" -> ErrClusterReady
    [] kind = "node" -> NoText

\* The polls with a timeout argument take it from 0..MaxTimeout seconds; the
\* loop of the node has its 30 seconds written in.
PollCalls ==
  { [kind |-> kind, timeout |-> timeout * TicksPerSecond,
     ready_at |-> ready_at] :
      kind \in PollKinds \ {"node"}, timeout \in 0..MaxTimeout,
      ready_at \in {Never} \cup 0..(MaxTimeout * TicksPerSecond + 1) }
  \cup { [kind |-> "node", timeout |-> NodeReadyTimeout * TicksPerSecond,
          ready_at |-> ready_at] :
           ready_at \in {Never, 0, 3,
                         NodeReadyTimeout * TicksPerSecond - 1,
                         NodeReadyTimeout * TicksPerSecond + 5} }

NoPoll == [elapsed |-> 0, attempts |-> 0, answered |-> FALSE, raised |-> NoText]

PollInit ==
  /\ fn_pc = "poll"
  /\ fn_call \in PollCalls
  /\ fn_rets = NoPoll
  /\ RunnerOnly(PlainRunner)
  /\ AggIdle
  /\ ParIdle
  /\ MoreIdle
  /\ IterIdle
  /\ ExpIdle

PollRest == <<fn_call, aggVars, parVars, runVars, moreVars, iterVars, expVars>>

TargetReady(at) == fn_call.ready_at /= Never /\ at >= fn_call.ready_at

\* One test of the loop condition with the attempt of its body: the ping
\* (or the cluster state check) answers and the wait is over, or it fails
\* and the loop sleeps; a failing attempt takes no time or a tick.
PollAttempt ==
  /\ fn_pc = "poll"
  /\ fn_rets.elapsed < fn_call.timeout
  /\ IF TargetReady(fn_rets.elapsed)
     THEN /\ fn_rets' = [fn_rets EXCEPT !.attempts = @ + 1, !.answered = TRUE]
          /\ fn_pc' = "returned"
     ELSE /\ \E took \in {0, 1} :
               fn_rets' = [fn_rets EXCEPT
                             !.attempts = @ + 1,
                             !.elapsed = @ + took + SleepTicks(fn_call.kind)]
          /\ fn_pc' = "poll"
  /\ UNCHANGED PollRest

\* The loop condition fails: what follows the loop.
PollTimeout ==
  /\ fn_pc = "poll"
  /\ fn_rets.elapsed >= fn_call.timeout
  /\ LET error == TimeoutError(fn_call.kind)
     IN /\ fn_rets' = [fn_rets EXCEPT !.raised = error]
        /\ fn_pc' = IF error = NoText THEN "returned" ELSE "raised"
  /\ UNCHANGED PollRest

PollNext == PollAttempt \/ PollTimeout

(***************************************************************************)
(* PerformanceProfiler: start_profiling, the worker thread it starts and   *)
(* stop_profiling, as the executor calls them around the measured run of   *)
(* a unit.  unit_local is the profiler object, unit_trace the worker       *)
(* threads started so far (a thread's perf process has the thread's        *)
(* number), unit_in the unit under way, unit_out how the units ended.      *)
(***************************************************************************)
MaxProfUnits == 2

NoThread == 0
NoProcess == 0

Worker(pc, perf) == [pc |-> pc, perf |-> perf]

Threads == 1..Len(unit_trace)

Alive(t) == unit_trace[t].pc /= "done"

ProfInit ==
  /\ unit_pc = "start_profiling"
  /\ unit_in = [unit |-> 1]
  /\ unit_local \in { [enabled |-> enabled, profiling_thread |-> NoThread,
                       profiler_process |-> NoProcess] : enabled \in BOOLEAN }
  /\ unit_trace = <<>>
  /\ unit_out = <<>>
  /\ RunnerOnly(PlainRunner)
  /\ AggIdle
  /\ ParIdle
  /\ SinkIdle
  /\ FnIdle
  /\ IterIdle
  /\ ExpIdle

ProfRest == <<aggVars, parVars, runVars, sinkVars, fnVars, iterVars, expVars>>

\* The executor's call ended: the next unit begins, if there is one.
EndProfUnit(outcome) ==
  /\ unit_out' = Append(unit_out, outcome)
  /\ IF unit_in.unit < MaxProfUnits
     THEN unit_in' = [unit |-> unit_in.unit + 1] /\ unit_pc' = "start_profiling"
     ELSE unit_in' = unit_in /\ unit_pc' = "finished"

\* start_profiling: nothing when disabled; else a new thread is created, kept
\* in profiling_thread and started.
StartProfiling ==
  /\ unit_pc = "start_profiling"
  /\ IF unit_local.enabled
     THEN /\ unit_trace' = Append(unit_trace, Worker("delay", "none"))
          /\ unit_local' = [unit_local EXCEPT
                              !.profiling_thread = Len(unit_trace) + 1]
     ELSE UNCHANGED <<unit_trace, unit_local>>
  /\ unit_pc' = "run"
  /\ UNCHANGED <<unit_in, unit_out, ProfRest>>

\* The measured invocation returns, and stop_profiling is called, or it
\* raises, and the handler of the executor ends the unit.
ProfiledRun ==
  /\ unit_pc = "run"
  /\ \/ /\ unit_pc' = "stop_profiling"
        /\ UNCHANGED <<unit_in, unit_out>>
     \/ EndProfUnit("failed")
  /\ UNCHANGED <<unit_local, unit_trace, ProfRest>>

\* stop_profiling: nothing when disabled; else the thread kept in
\* profiling_thread is joined when it is alive.
StopJoin ==
  /\ unit_pc = "stop_profiling"
  /\ IF ~unit_local.enabled
     THEN EndProfUnit("stopped")
     ELSE /\ \/ unit_local.profiling_thread = NoThread
             \/ ~Alive(unit_local.profiling_thread)
          /\ unit_pc' = "poll"
          /\ UNCHANGED <<unit_in, unit_out>>
  /\ UNCHANGED <<unit_local, unit_trace, ProfRest>>

\* if self.profiler_process: poll() and, when it still runs,
\* _stop_perf_process, which interrupts it.
StopPoll ==
  /\ unit_pc = "poll"
  /\ LET handle == unit_local.profiler_process
     IN IF handle = NoProcess
        THEN unit_pc' = "report" /\ UNCHANGED unit_trace
        ELSE /\ unit_pc' = "communicate"
             /\ unit_trace' = [unit_trace EXCEPT ![handle].perf = "exited"]
  /\ UNCHANGED <<unit_in, unit_out, unit_local, ProfRest>>

\* communicate() on the handle: an AttributeError when a worker cleared the
\* handle meanwhile, the return on a permission error, or the handle is
\* cleared.
StopCommunicate ==
  /\ unit_pc = "communicate"
  /\ LET handle == unit_local.profiler_process
     IN \/ /\ handle = NoProcess
           /\ EndProfUnit("stop failed")
           /\ UNCHANGED unit_local
        \/ /\ handle /= NoProcess
           /\ EndProfUnit("permission denied")
           /\ UNCHANGED unit_local
        \/ /\ handle /= NoProcess
           /\ unit_local' = [unit_local EXCEPT !.profiler_process = NoProcess]
           /\ unit_pc' = "report"
           /\ UNCHANGED <<unit_in, unit_out>>
  /\ UNCHANGED <<unit_trace, ProfRest>>

\* The report and the flame graph of the unit, or the warning.
StopReport ==
  /\ unit_pc = "report"
  /\ EndProfUnit("stopped")
  /\ UNCHANGED <<unit_local, unit_trace, ProfRest>>

\* _profiling_worker after sleep(delay): pgrep finds the server or not.
WorkerFind(t) ==
  /\ unit_trace[t].pc = "delay"
  /\ \E found \in BOOLEAN :
       unit_trace' = [unit_trace EXCEPT
                        ![t].pc = IF found THEN "popen" ELSE "done"]
  /\ UNCHANGED <<unit_pc, unit_in, unit_out, unit_local, ProfRest>>

\* self.profiler_process = subprocess.Popen(perf_cmd), or Popen raises.
WorkerPopen(t) ==
  /\ unit_trace[t].pc = "popen"
  /\ \/ /\ unit_trace' = [unit_trace EXCEPT ![t] = Worker("check", "running")]
        /\ unit_local' = [unit_local EXCEPT !.profiler_process = t]
     \/ /\ unit_trace' = [unit_trace EXCEPT ![t].pc = "done"]
        /\ UNCHANGED unit_local
  /\ UNCHANGED <<unit_pc, unit_in, unit_out, ProfRest>>

\* The perf process ends by itself.
PerfExits(t) ==
  /\ unit_trace[t].perf = "running"
  /\ unit_trace' = [unit_trace EXCEPT ![t].perf = "exited"]
  /\ UNCHANGED <<unit_pc, unit_in, unit_out, unit_local, ProfRest>>

\* After sleep(0.5): self.profiler_process.poll(); a process that ended has
\* its handle cleared and the worker returns.
WorkerCheck(t) ==
  /\ unit_trace[t].pc = "check"
  /\ LET handle == unit_local.profiler_process
     IN IF handle = NoProcess
        THEN /\ unit_trace' = [unit_trace EXCEPT ![t].pc = "done"]
             /\ UNCHANGED unit_local
        ELSE IF unit_trace[handle].perf = "exited"
        THEN /\ unit_trace' = [unit_trace EXCEPT ![t].pc = "done"]
             /\ unit_local' = [unit_local EXCEPT !.profiler_process = NoProcess]
        ELSE /\ unit_trace' = [unit_trace EXCEPT ![t].pc = "duration"]
             /\ UNCHANGED unit_local
  /\ UNCHANGED <<unit_pc, unit_in, unit_out, ProfRest>>

\* After sleep(duration): _stop_perf_process interrupts the process of the
\* handle, if there is a handle.
WorkerStop(t) ==
  /\ unit_trace[t].pc = "duration"
  /\ LET handle == unit_local.profiler_process
     IN unit_trace' =
          IF handle = NoProcess
          THEN [unit_trace EXCEPT ![t].pc = "done"]
          ELSE [[unit_trace EXCEPT ![handle].perf = "exited"]
                  EXCEPT ![t].pc = "done"]
  /\ UNCHANGED <<unit_pc, unit_in, unit_out, unit_local, ProfRest>>

ProfNext ==
  \/ StartProfiling
  \/ ProfiledRun
  \/ StopJoin
  \/ StopPoll
  \/ StopCommunicate
  \/ StopReport
  \/ \E t \in Threads : WorkerFind(t)
  \/ \E t \in Threads : WorkerPopen(t)
  \/ \E t \in Threads : PerfExits(t)
  \/ \E t \in Threads : WorkerCheck(t)
  \/ \E t \in Threads : WorkerStop(t)

(***************************************************************************)
(* The executor around _run_parallel_search: what the call returned is     *)
(* parsed, what it raised is caught by the executor's handler, and the run *)
(* controller passes the next unit to the executor.                        *)
(***************************************************************************)
BeginNextUnit ==
  /\ par_pc \in {"returned", "raised"}
  /\ par_pc' = "next_unit"
  /\ UNCHANGED <<par_scenario, par_ports, par_cpus, par_plan, processes,
                 par_joined, par_results, par_ret, aggVars, runVars, extVars>>

OverlapNext == ParNext \/ BeginNextUnit

(***************************************************************************)
(* ServerLauncher: launch and shutdown on one launcher.  fn_rets holds the *)
(* launcher's cluster_nodes list (the ports tracked), the ports of the     *)
(* server processes that run, and the kind of what was launched; fn_call   *)
(* the call made last.                                                     *)
(***************************************************************************)
MaxLauncherCalls == 4
ClusterBasePort == 7000

ClusterPorts(n) == [i \in 1..n |-> ClusterBasePort + i - 1]

PortSet(ports) == {ports[i] : i \in DOMAIN ports}

\* The config argument of launch: 0 for none (as _restart_server calls it),
\* or the number of nodes, each with a port and a core range.
LaunchConfigs == 0..MaxNodes

ErrNodeLaunch == "Command failed: valkey-server"
ErrClusterCreate == "Command failed: valkey-cli --cluster create"

LauncherInit ==
  /\ fn_pc = "launcher"
  /\ fn_call = [op |-> "new", cluster_mode |-> FALSE, nodes |-> 0,
                raised |-> NoText, calls |-> 0]
  /\ fn_rets = [cluster_nodes |-> <<>>, running |-> {}, launched |-> "none"]
  /\ RunnerOnly(PlainRunner)
  /\ AggIdle
  /\ ParIdle
  /\ MoreIdle
  /\ IterIdle
  /\ ExpIdle

LauncherRest == <<fn_pc, aggVars, parVars, runVars, moreVars, iterVars, expVars>>

\* shutdown: each tracked node, or the default connection, is sent SHUTDOWN,
\* and pkill ends what is left; the list is left as it is.
ShutdownLeaves(launcher) ==
  [launcher EXCEPT !.running = {}, !.launched = "none"]

\* launch with a config that holds cluster_nodes, in cluster mode: the nodes
\* are launched in order, each appended to cluster_nodes, and the cluster is
\* created; failed is the number of the node whose launch raises, nodes + 1
\* when the creation of the cluster raises, 0 when nothing raises.  The
\* handler shuts down and raises again.
LaunchCluster(launcher, nodes, failed) ==
  LET appended == IF failed = 0 \/ failed > nodes THEN nodes ELSE failed - 1
      tracked == launcher.cluster_nodes \o ClusterPorts(appended)
  IN IF failed = 0
     THEN [launcher EXCEPT !.cluster_nodes = tracked,
                           !.running = PortSet(ClusterPorts(nodes)),
                           !.launched = "cluster"]
     ELSE ShutdownLeaves([launcher EXCEPT !.cluster_nodes = tracked])

\* launch without such a config, or outside cluster mode: one server on the
\* default port.
LaunchSingle(launcher, failed) ==
  IF failed = 0
  THEN [launcher EXCEPT !.running = {DEFAULT_PORT}, !.launched = "single"]
  ELSE ShutdownLeaves(launcher)

Launch ==
  /\ fn_pc = "launcher"
  /\ fn_call.calls < MaxLauncherCalls
  /\ fn_rets.launched = "none"
  /\ \E cluster_mode \in BOOLEAN, nodes \in LaunchConfigs :
       IF cluster_mode /\ nodes > 0
       THEN \E failed \in 0..(nodes + 1) :
              /\ fn_rets' = LaunchCluster(fn_rets, nodes, failed)
              /\ fn_call' = [op |-> "launch", cluster_mode |-> cluster_mode,
                             nodes |-> nodes,
                             raised |-> IF failed = 0 THEN NoText
                                        ELSE IF failed > nodes
                                        THEN ErrClusterCreate
                                        ELSE ErrNodeLaunch,
                             calls |-> fn_call.calls + 1]
       ELSE \E failed \in {0, 1} :
              /\ fn_rets' = LaunchSingle(fn_rets, failed)
              /\ fn_call' = [op |-> "launch", cluster_mode |-> cluster_mode,
                             nodes |-> nodes,
                             raised |-> IF failed = 0 THEN NoText
                                        ELSE ErrNodeLaunch,
                             calls |-> fn_call.calls + 1]
  /\ UNCHANGED LauncherRest

Shutdown ==
  /\ fn_pc = "launcher"
  /\ fn_call.calls < MaxLauncherCalls
  /\ fn_rets' = ShutdownLeaves(fn_rets)
  /\ fn_call' = [op |-> "shutdown", cluster_mode |-> FALSE, nodes |-> 0,
                 raised |-> NoText, calls |-> fn_call.calls + 1]
  /\ UNCHANGED LauncherRest

LauncherNext == Launch \/ Shutdown

(***************************************************************************)
(* The profiler's delays across the scenarios of a run: lines 829-876 of   *)
(* _run_single_scenario with PerformanceProfiler.__init__ and              *)
(* start_profiling.  A delays dict gives, per phase, a delay and a         *)
(* duration or nothing; a profiling dict may lack its "delays" key.        *)
(* exp_in is the ambient profiling set when the run began, exp_heap the    *)
(* runner's current_profiling_set and the profiler's delays attribute,     *)
(* exp_ret the scenarios run so far with the settings their worker got.    *)
(***************************************************************************)
MaxDelayUnits == 2
DefaultDelay == 0
DefaultDuration == 10

NoPhase == [some |-> FALSE, delay |-> 0, duration |-> 0]
PhaseDelays(delay, duration) ==
  [some |-> TRUE, delay |-> delay, duration |-> duration]

NoDelaysKey == [has |-> FALSE, write |-> NoPhase, read |-> NoPhase]
DelaysDict(write, read) == [has |-> TRUE, write |-> write, read |-> read]

\* A profiling dict: its "enabled" key ("absent", "true", "false") and its
\* "delays" key.
ProfilingDict(enabled, delays) == [enabled |-> enabled, delays |-> delays]

\* scenario.get("profiling") is missing or empty.
NoOverride == [some |-> FALSE, dict |-> ProfilingDict("absent", NoDelaysKey)]
Override(dict) == [some |-> TRUE, dict |-> dict]

AmbientDelays ==
  { NoDelaysKey,
    DelaysDict(NoPhase, NoPhase),
    DelaysDict(PhaseDelays(1, 5), NoPhase) }

OverrideDelays ==
  { NoDelaysKey,
    DelaysDict(PhaseDelays(2, 3), NoPhase),
    DelaysDict(NoPhase, PhaseDelays(4, 6)) }

\* The profiler exists only when the ambient set is enabled.
AmbientSets == { ProfilingDict("true", delays) : delays \in AmbientDelays }

\* A dict with neither key is empty, which is no override.
Overrides ==
  {NoOverride}
  \cup ({ Override(ProfilingDict(enabled, delays)) :
            enabled \in {"absent", "false"}, delays \in OverrideDelays }
        \ {Override(ProfilingDict("absent", NoDelaysKey))})

\* deep_merge on a key both dicts may hold: the two dicts are merged key by
\* key, the override's value winning (a phase holds both of its keys).
MergePhase(base, override) == IF override.some THEN override ELSE base

MergeDelays(base, override) ==
  IF ~override.has THEN base
  ELSE IF ~base.has THEN override
  ELSE DelaysDict(MergePhase(base.write, override.write),
                  MergePhase(base.read, override.read))

\* Lines 829-834.
EffectiveProfiling(ambient, override) ==
  IF override.some
  THEN ProfilingDict(IF override.dict.enabled = "absent" THEN ambient.enabled
                     ELSE override.dict.enabled,
                     MergeDelays(ambient.delays, override.dict.delays))
  ELSE ambient

\* profiling_config.get("delays", {}) in PerformanceProfiler.__init__.
InitialDelays(profiling_set) ==
  IF profiling_set.delays.has THEN profiling_set.delays
  ELSE DelaysDict(NoPhase, NoPhase)

\* Line 873: effective_profiling.get("delays", profiler.delays).
DelaysFor(effective, profiler_delays) ==
  IF effective.delays.has THEN effective.delays ELSE profiler_delays

\* start_profiling: the delay and the duration handed to the worker, from
\* the phase the profile id names.
WorkerSettings(delays, type) ==
  LET phase == IF type = "write" THEN delays.write ELSE delays.read
  IN IF phase.some THEN [delay |-> phase.delay, duration |-> phase.duration]
     ELSE [delay |-> DefaultDelay, duration |-> DefaultDuration]

DelaysInit ==
  /\ exp_pc = "scenarios"
  /\ exp_in \in AmbientSets
  /\ exp_heap = [current_profiling_set |-> exp_in,
                 delays |-> InitialDelays(exp_in)]
  /\ exp_ret = <<>>
  /\ RunnerOnly(PlainRunner)
  /\ AggIdle
  /\ ParIdle
  /\ MoreIdle
  /\ IterIdle
  /\ FnIdle

\* One scenario of the run, up to the start of its profiling.
RunProfiledScenario ==
  /\ exp_pc = "scenarios"
  /\ Len(exp_ret) < MaxDelayUnits
  /\ \E type \in {"read", "write"}, override \in Overrides :
       LET ambient == exp_heap.current_profiling_set
           effective == EffectiveProfiling(ambient, override)
           started == effective.enabled = "true"
           delays == IF started
                     THEN DelaysFor(effective, exp_heap.delays)
                     ELSE exp_heap.delays
       IN /\ exp_heap' = [exp_heap EXCEPT !.delays = delays]
          /\ exp_ret' = Append(exp_ret,
                               [type |-> type, override |-> override,
                                started |-> started,
                                settings |-> WorkerSettings(delays, type)])
  /\ UNCHANGED <<exp_pc, exp_in, aggVars, parVars, runVars, moreVars,
                 iterVars, fnVars>>

DelaysNext == RunProfiledScenario

(***************************************************************************)
(* The specifications.                                                     *)
(***************************************************************************)

Spec == RunInit /\ [][Next]_vars

SpecExpand == ExpInit /\ [][ExpNext]_vars

SpecFn == FnInit /\ [][FnNext]_vars

SpecIter == IterInit /\ [][IterNext]_vars

SpecCpu == CpuInit /\ [][CpuNext]_vars

SpecMerge == MergeInit /\ [][MergeNext]_vars

SpecSink == SinkInit /\ [][SinkNext]_vars

SpecConfig == ConfigInit /\ [][ConfigNext]_vars

SpecUnit == UnitInit /\ [][UnitNext]_vars

SpecFlat == FlatInit /\ [][FlatNext]_vars

SpecPoll == PollInit /\ [][PollNext]_vars

SpecProf == ProfInit /\ [][ProfNext]_vars

SpecOverlap == ParInit /\ [][OverlapNext]_vars

SpecLauncher == LauncherInit /\ [][LauncherNext]_vars

SpecDelays == DelaysInit /\ [][DelaysNext]_vars

SpecAgg == AggInit /\ [][AggNext]_vars

SpecPar == ParInit /\ [][ParNext]_vars

(***************************************************************************)
(* Claims about the aggregation function (checked under SpecAgg).          *)
(***************************************************************************)
\* The per-node results the call parsed, and whether the parse loop was left
\* by an exception.
AggParsed == CollectMetrics(agg_results, Len(agg_results)).list
AggParseExc == CollectMetrics(agg_results, Len(agg_results)).exc

RECURSIVE SeqSum(_)
SeqSum(s) == IF s = <<>> THEN 0 ELSE Head(s) + SeqSum(Tail(s))

TotalOf(s, Weight(_)) == SeqSum([i \in DOMAIN s |-> Weight(s[i])])

AggIdx == DOMAIN AggParsed

\* C9: for every non-empty list of parsed per-node results the call returns,
\* and the aggregated rps is the sum of the per-node rps, the aggregated
\* minimum latency the least per-node minimum and the aggregated maximum
\* latency the greatest per-node maximum.
C9_SumMinMax ==
  (agg_pc = "done" /\ AggParseExc = NoText /\ AggParsed /= <<>>) =>
    LET rps(m) == m.rps
    IN /\ agg_ret.raised = NoText
       /\ agg_ret.row.rps = TotalOf(AggParsed, rps)
       /\ \E i \in AggIdx :
            agg_ret.row.min_latency_ms = AggParsed[i].min_latency_ms
       /\ \A i \in AggIdx :
            agg_ret.row.min_latency_ms <= AggParsed[i].min_latency_ms
       /\ \E i \in AggIdx :
            agg_ret.row.max_latency_ms = AggParsed[i].max_latency_ms
       /\ \A i \in AggIdx :
            agg_ret.row.max_latency_ms >= AggParsed[i].max_latency_ms

\* C9 witness: two nodes were aggregated, the second holding the smaller
\* minimum and the first the larger maximum.
C9_Witness ==
  /\ agg_pc = "done" /\ agg_ret.raised = NoText
  /\ Len(AggParsed) = 2
  /\ AggParsed[1].rps > 0 /\ AggParsed[2].rps > 0
  /\ AggParsed[2].min_latency_ms < AggParsed[1].min_latency_ms
  /\ AggParsed[2].max_latency_ms < AggParsed[1].max_latency_ms

WeightedNames ==
  {"avg_latency_ms", "p50_latency_ms", "p95_latency_ms", "p99_latency_ms"}

\* C10: when the summed rps is positive each of the four weighted latencies
\* is the fraction sum(rps_i * latency_i) / total_rps over the included
\* nodes, which lies between the least and the greatest per-node value; when
\* the summed rps is zero all four are 0; no denominator is ever zero and
\* the call does not raise.
C10_WeightedLatency ==
  (agg_pc = "done" /\ AggParseExc = NoText /\ AggParsed /= <<>>) =>
    LET rps(m) == m.rps
        total == TotalOf(AggParsed, rps)
    IN /\ agg_ret.raised = NoText
       /\ \A name \in WeightedNames :
            LET w == agg_ret.row[name]
                weighted(m) == m.rps * m[name]
            IN /\ w.den /= 0
               /\ total > 0 =>
                    /\ w.den = total
                    /\ w.num = TotalOf(AggParsed, weighted)
                    /\ \E i \in AggIdx : AggParsed[i][name] * w.den <= w.num
                    /\ \E i \in AggIdx : AggParsed[i][name] * w.den >= w.num
               /\ total = 0 => (w.num = 0 /\ w.den = 1)

\* C10 witness: two nodes of different, positive rps and different average
\* latencies were aggregated.
C10_Witness ==
  /\ agg_pc = "done" /\ agg_ret.raised = NoText
  /\ Len(AggParsed) = 2
  /\ AggParsed[1].rps > AggParsed[2].rps /\ AggParsed[2].rps > 0
  /\ AggParsed[1].avg_latency_ms /= AggParsed[2].avg_latency_ms

\* C10 witness of the zero case: every aggregated node reported rps 0.
C10_ZeroWitness ==
  /\ agg_pc = "done" /\ agg_ret.raised = NoText
  /\ Len(AggParsed) = 2
  /\ \A i \in AggIdx : AggParsed[i].rps = 0

(***************************************************************************)
(* Claims about the parallel coordinator (checked under SpecPar).          *)
(***************************************************************************)
ParDone == par_pc \in {"returned", "raised"}

\* The call went through its launch loop and its join loop.
ParJoinedAll ==
  /\ ParDone
  /\ par_ret.raised \notin {ErrLaunch, ErrModuloByZero}

ExitedZero(i) ==
  processes[i].state = "exited" /\ processes[i].returncode = 0

\* Client i printed a row every field of which converts to a number.
Parseable(i) ==
  LET row == ParseCsvRow(processes[i].stdout)
  IN /\ row.found
     /\ \A j \in DOMAIN FieldNames :
          row.f[FieldNames[j]].k \in {"num", "absent"}

Usable(i) == ExitedZero(i) /\ Parseable(i)

UsableRps ==
  [i \in DOMAIN processes |->
     IF Usable(i) THEN ParseCsvRow(processes[i].stdout).f.rps.v ELSE 0]

ExpectedClients ==
  IF par_scenario.parallel_clients > 0 THEN par_scenario.parallel_clients
  ELSE Len(par_ports)

\* C5: every client is launched before any is waited on; the call returns or
\* raises only when every launched process has ended; the results are
\* aggregated only when every launched process was joined.
C5_ForkJoinBarrier ==
  /\ par_joined > 0 => Len(processes) = Len(par_plan)
  /\ ParDone => \A i \in DOMAIN processes : processes[i].state = "exited"
  /\ par_pc \in {"collected", "returned"} => par_joined = Len(processes)

\* C6: past its launch loop, the coordinator has launched one client per
\* port, on that port, when the scenario gives no parallel_clients, and
\* parallel_clients clients otherwise, whatever the number of core ranges.
C6_ClientsLaunched ==
  (par_pc \notin {"assign", "launch"} /\ par_ret.raised /= ErrLaunch) =>
    /\ Len(processes) = ExpectedClients
    /\ par_scenario.parallel_clients = 0 =>
         \A i \in DOMAIN processes : processes[i].port = par_ports[i]

\* C7: when some client exited zero with a parseable row, the call returns
\* the aggregate of exactly the clients that did; the others are dropped.
C7_DropsUnusable ==
  (ParJoinedAll /\ \E i \in DOMAIN processes : Usable(i)) =>
    /\ par_pc = "returned"
    /\ par_ret.row.rps = SeqSum(UsableRps)

\* C8 as stated: when no client produced usable output, the call fails with
\* 'All parallel benchmarks failed'.
C8_AllFailedError ==
  (ParJoinedAll /\ \A i \in DOMAIN processes : ~Usable(i)) =>
    (par_pc = "raised" /\ par_ret.raised = ErrAllFailed)

\* A zero exit whose first line after the header is short: a field is None.
ShortRowAt(i) ==
  /\ ExitedZero(i)
  /\ ParseCsvRow(processes[i].stdout).found
  /\ \E j \in DOMAIN FieldNames :
       ParseCsvRow(processes[i].stdout).f[FieldNames[j]].k = "none"

\* C8 amended: when no client produced usable output the call fails: with
\* 'All parallel benchmarks failed' when no client exited zero, otherwise with
\* the aggregator's error, which is 'No valid metrics parsed from parallel
\* results' unless the float conversion of a short row raised.
C8_FailsWhenNoneUsable ==
  (ParJoinedAll /\ \A i \in DOMAIN processes : ~Usable(i)) =>
    /\ par_pc = "raised"
    /\ (\A i \in DOMAIN processes : ~ExitedZero(i)) =>
         par_ret.raised = ErrAllFailed
    /\ (\E i \in DOMAIN processes : ExitedZero(i)) =>
         /\ par_ret.raised \in {ErrNoValidMetrics, ErrFloatNone}
         /\ par_ret.raised = ErrFloatNone =>
              \E i \in DOMAIN processes : ShortRowAt(i)
         /\ (\A i \in DOMAIN processes : ~ShortRowAt(i)) =>
              par_ret.raised = ErrNoValidMetrics

\* C8 witness: of two clients one exited non-zero and the other exited zero
\* without a row, and the call failed on the aggregator's error.
C8_Witness ==
  /\ par_pc = "raised" /\ par_ret.raised = ErrNoValidMetrics
  /\ Len(processes) = 2
  /\ processes[1].state = "exited" /\ processes[1].returncode /= 0
  /\ ExitedZero(2) /\ ~Parseable(2)


(***************************************************************************)
(* Claims about the Scenario Executor and the Run Controller (Spec).       *)
(***************************************************************************)
MeasuredPhases == {"warmup", "profiler_start", "measure", "parse"}

Grouped == run_pc /= "idle" /\ runner.uses_test_groups
Flat == run_pc /= "idle" /\ ~runner.uses_test_groups

\* The records collected for the unit executed last.
LastRecords ==
  [i \in 1..(Len(metric_json) - last.before) |-> metric_json[last.before + i]]

\* C1: in grouped mode an exception raised in a scenario's measured phase
\* (warmup, profiler start, single or parallel measured invocation, parsing)
\* does not leave the executor: with a metrics sink the unit yields one
\* failure marker carrying the exception text, without one it yields
\* nothing, and the run goes on (it is iterating or has completed, and has
\* not raised).
C1_MeasuredPhaseCaught ==
  (Grouped /\ last.unit > 0 /\ last.phase \in MeasuredPhases) =>
    /\ run_raised = NoText
    /\ run_pc \in {"iterate", "done"}
    /\ IF metrics_processor
       THEN /\ Len(LastRecords) = 1
            /\ LastRecords[1].status = "failed"
            /\ LastRecords[1].error = last.text
       ELSE LastRecords = <<>>

\* A scenario failed with the coordinator's error, the next one ran and
\* failed in its warmup, and the run completed.
C1_Witness ==
  /\ Grouped /\ metrics_processor /\ run_pc = "done"
  /\ last.unit = 2 /\ last.phase = "warmup"
  /\ Len(metric_json) = 2
  /\ metric_json[1].status = "failed"
  /\ metric_json[1].error = ErrAllFailed
  /\ metric_json[2].status = "failed"
  /\ metric_json[2].error = last.text

\* C2: in flat mode an error of a unit's measured invocation or of the
\* parsing of its output is isolated: the unit yields no record and the run
\* does not raise.
C2_FlatErrorIsolated ==
  (Flat /\ last.unit > 0 /\ last.phase \in {"measure", "parse"}) =>
    /\ run_raised = NoText
    /\ run_pc \in {"iterate", "done"}
    /\ LastRecords = <<>>

\* C3: in a grouped run with a metrics sink, a scenario whose measured
\* invocation raised has exactly one collected record: status "failed",
\* test_id "<group>_<id>", its type as test_phase, the exception text as
\* error; and the run has not raised.
C3_FailureMarkerRecord ==
  (Grouped /\ metrics_processor /\ last.unit > 0 /\ last.phase = "measure") =>
    LET test_id == ToString(last.group) \o "_" \o last.id
    IN /\ Cardinality({ i \in DOMAIN metric_json :
                          metric_json[i].test_id = test_id }) = 1
       /\ Len(LastRecords) = 1
       /\ LastRecords[1].test_id = test_id
       /\ LastRecords[1].status = "failed"
       /\ LastRecords[1].test_phase = last.type
       /\ LastRecords[1].error = last.text
       /\ run_raised = NoText
       /\ run_pc \in {"iterate", "done"}

\* One group, one scenario, the invocation's command not found; the run
\* completed.
C3_Witness ==
  /\ Grouped /\ metrics_processor /\ run_pc = "done"
  /\ unit_count = 1 /\ last.phase = "measure" /\ last.text = ErrUnexpected
  /\ Len(metric_json) = 1
  /\ metric_json[1].test_id = "1_s1"
  /\ metric_json[1].status = "failed"

\* C4: the sink is written at most once in a run, in the step that ends the
\* iteration, with all the collected records in the order of their units
\* (a unit's record is appended in the unit's own step and the list is
\* otherwise untouched, and no unit runs after the write); with no record
\* collected nothing is written and the run ends without raising.
C4_Step ==
  /\ written' /= written =>
       /\ written = <<>>
       /\ written' = <<metric_json>>
       /\ metric_json /= <<>>
       /\ metric_json' = metric_json
       /\ run_pc = "iterate" /\ run_pc' = "done"
  /\ metric_json' /= metric_json =>
       /\ unit_count' = unit_count + 1
       /\ Len(metric_json') = Len(metric_json) + 1
       /\ SubSeq(metric_json', 1, Len(metric_json)) = metric_json
  /\ run_pc = "done" => UNCHANGED <<unit_count, metric_json, written>>
  /\ (run_pc' = "done" /\ metric_json' = <<>>) =>
       (written' = <<>> /\ run_raised' = NoText)
  /\ (run_pc' = "done" /\ metrics_processor' /\ metric_json' /= <<>>) =>
       written' = <<metric_json'>>

C4_SingleBatchWrite == [][C4_Step]_vars

\* Two units produced a record each and the batch was written.
C4_Witness ==
  /\ run_pc = "done"
  /\ Len(metric_json) = 2
  /\ written = <<metric_json>>

\* No record was collected, nothing was written, the run completed.
C4_EmptyWitness ==
  /\ run_pc = "done" /\ metrics_processor
  /\ unit_count > 0 /\ metric_json = <<>> /\ written = <<>>


(***************************************************************************)
(* Claims about the runner's pure methods (SpecFn).                        *)
(***************************************************************************)
FnCalled(op) == fn_pc /= "idle" /\ fn_call.op = op /\ fn_rets /= <<>>

\* C11: the parallel path is chosen exactly when cluster mode is on, the
\* configured node count is greater than one and the scenario's
\* cluster_execution is "parallel"; a missing cluster_execution or a missing
\* node count means single-node execution.
C11_ParallelChoice ==
  FnCalled("_should_use_parallel") =>
    \A i \in DOMAIN fn_rets :
      fn_rets[i] =
        ( /\ runner.cluster_mode
          /\ runner.has_cluster_nodes
          /\ runner.cluster_nodes > 1
          /\ fn_call.arg.cluster_execution = "parallel" )

\* A multi-node cluster and a scenario asking for parallel execution.
C11_Witness ==
  /\ FnCalled("_should_use_parallel")
  /\ runner.cluster_mode /\ runner.has_cluster_nodes
  /\ runner.cluster_nodes = 2
  /\ fn_call.arg.cluster_execution = "parallel"
  /\ fn_rets[1] = TRUE

\* First header of a text, 0 for none; first line after it that is not
\* blank, 0 for none.
HeaderAt(so) ==
  IF \E i \in DOMAIN so : so[i].kind = "header"
  THEN CHOOSE i \in DOMAIN so :
         so[i].kind = "header" /\ \A j \in 1..(i - 1) : so[j].kind /= "header"
  ELSE 0

DataAt(so) ==
  LET h == HeaderAt(so)
      after == { i \in DOMAIN so : i > h /\ so[i].kind /= "blank" }
  IN IF h = 0 \/ after = {} THEN 0
     ELSE CHOOSE i \in after : \A j \in after : i <= j

\* C17: _parse_csv_row returns none for an empty text, a text without a
\* header and a header without a data line after it; otherwise it returns
\* the first data line after the first header, whatever follows, as a map
\* whose values are all strings.
C17_ParseFirstRow ==
  FnCalled("_parse_csv_row") =>
    LET so == fn_call.arg
        ret == fn_rets[1]
    IN IF DataAt(so) = 0 THEN ~ret.found
       ELSE /\ ret.found
            /\ ret.f = so[DataAt(so)].f
            /\ \A i \in DOMAIN FieldNames : ret.f[FieldNames[i]].k /= "none"

\* Occurrences of a token in an argument vector.
Count(cmd, token) == Cardinality({ i \in DOMAIN cmd : cmd[i] = token })

FlatBuilt ==
  FnCalled("_build_benchmark_command") /\ ~fn_call.arg.has_scenario
ScenarioBuilt ==
  FnCalled("_build_benchmark_command") /\ fn_call.arg.has_scenario

\* C18: in flat mode the argument vector holds exactly one of the duration
\* flag and the request-count flag: the duration flag when a duration is
\* supplied, the request-count flag otherwise.
C18_OneRunLengthFlag ==
  FlatBuilt =>
    \A i \in DOMAIN fn_rets :
      /\ Count(fn_rets[i], "--duration") + Count(fn_rets[i], "-n") = 1
      /\ Count(fn_rets[i], "--duration") = 1 <=> fn_call.arg.duration.some

\* A duration and a request count were both supplied.
C18_Witness ==
  /\ FlatBuilt
  /\ fn_call.arg.duration.some /\ fn_call.arg.requests.some
  /\ Count(fn_rets[1], "--duration") = 1

\* C19, as stated: every argument vector, in flat mode and in scenario
\* mode, ends with the tabular output flag.
C19_EndsWithCsv ==
  FnCalled("_build_benchmark_command") =>
    \A i \in DOMAIN fn_rets : fn_rets[i][Len(fn_rets[i])] = "--csv"

\* C19, amended: in flat mode the vector ends with the tabular output flag;
\* in scenario mode the flag is the last one of the flag section: it is
\* followed by the separator and then by the tokens of the scenario's
\* command, which end the vector.
C19_CsvClosesFlags ==
  /\ FlatBuilt =>
       \A i \in DOMAIN fn_rets : fn_rets[i][Len(fn_rets[i])] = "--csv"
  /\ ScenarioBuilt =>
       \A i \in DOMAIN fn_rets :
         LET cmd == fn_rets[i]
             tokens == ShlexSplit(fn_call.arg.scenario.command)
             sep == Len(cmd) - Len(tokens)
         IN /\ sep >= 2
            /\ cmd[sep - 1] = "--csv"
            /\ cmd[sep] = "--"
            /\ SubSeq(cmd, sep + 1, Len(cmd)) = tokens
            /\ Count(cmd, "--csv") = 1

\* A scenario whose command has three tokens.
C19_Witness ==
  /\ ScenarioBuilt
  /\ fn_call.arg.scenario.command = "FT.SEARCH idx *"
  /\ fn_rets[1][Len(fn_rets[1])] = "*"

\* C20: two calls of the builder with the same runner and the same
\* arguments return the same argument vector.
C20_Deterministic ==
  FnCalled("_build_benchmark_command") =>
    \A i, j \in DOMAIN fn_rets : fn_rets[i] = fn_rets[j]

(***************************************************************************)
(* Claims about option fan-out (SpecExpand).                               *)
(***************************************************************************)
HasOptions ==
  exp_pc /= "idle" /\ exp_in.value.options.state = "map"
  /\ exp_in.value.options.items /= <<>>

\* C15: fan-out of a scenario with a non-empty options map returns one
\* variant per (flag, suffix) pair, in the map's order: id = original id +
\* suffix; command = original command + " " + flag for a non-empty flag,
\* the original command otherwise; description extended by " + flag" only
\* when there is a description and the flag is non-empty; every other field
\* as in the original.
C15_FanOut ==
  (exp_pc = "returned" /\ HasOptions) =>
    LET original == exp_in.value
        items == original.options.items
    IN /\ Len(exp_ret) = Len(items)
       /\ \A k \in DOMAIN items :
            LET v == Deref(exp_heap, exp_ret[k])
                flag == items[k].flag
            IN /\ v.id = original.id \o items[k].suffix
               /\ v.command = IF flag = "" THEN original.command
                              ELSE original.command \o " " \o flag
               /\ v.description =
                    IF original.description /= Missing /\ flag /= ""
                    THEN original.description \o " + " \o flag
                    ELSE original.description
               /\ v.type = original.type
               /\ v.options = original.options

\* Two options, the first with an empty flag, on a described scenario.
C15_Witness ==
  /\ exp_pc = "returned" /\ HasOptions
  /\ Len(exp_ret) = 2
  /\ exp_in.value.options.items[1].flag = ""
  /\ exp_in.value.options.items[2].flag = "NOCONTENT"
  /\ exp_in.value.description = "search"
  /\ Deref(exp_heap, exp_ret[2]).command = "FT.SEARCH idx * NOCONTENT"

\* C16: fan-out does not change the scenario passed; changing a variant
\* returned for a scenario with options does not change it either; for a
\* missing, null or empty options map the list returned holds the scenario
\* itself and nothing else.
C16_OriginalUntouched ==
  /\ exp_pc = "returned" => Deref(exp_heap, exp_in.addr) = exp_in.value
  /\ (exp_pc = "mutated" /\ HasOptions) =>
       Deref(exp_heap, exp_in.addr) = exp_in.value
  /\ (exp_pc \in {"returned", "mutated"} /\ ~HasOptions) =>
       exp_ret = <<exp_in.addr>>

\* A pair was added to the options map of a variant.
C16_Witness ==
  /\ exp_pc = "mutated" /\ HasOptions
  /\ \E i \in DOMAIN exp_ret :
       Len(Deref(exp_heap, exp_ret[i]).options.items)
         = Len(exp_in.value.options.items) + 1

(***************************************************************************)
(* Claims about the scenario iterator (SpecIter).                          *)
(***************************************************************************)
IsPrefixOrAll(expected) ==
  /\ Len(it_yielded) <= Len(expected)
  /\ it_pc = "exhausted" => Len(it_yielded) = Len(expected)

\* The lists of the product, requests first and command last.
Axes ==
  LET config == runner.config
  IN << IF config.has_requests THEN config.requests ELSE <<None>>,
        config.keyspacelen, config.data_sizes, config.pipelines,
        config.clients, config.commands >>

RECURSIVE Stride(_)
\* The number of combinations of the axes after axis k.
Stride(k) == IF k >= Len(Axes) THEN 1 ELSE Len(Axes[k + 1]) * Stride(k + 1)

\* The value of axis k in combination number c, counted from 0.
AxisValue(c, k) == Axes[k][((c \div Stride(k)) % Len(Axes[k])) + 1]

\* The units a flat configuration is to yield: parameters and run number.
ExpectedFlat ==
  LET total == Len(Axes[1]) * Stride(1)
      kept(c) ==
        /\ AxisValue(c, 6) \in READ_COMMANDS \cup WRITE_COMMANDS
        /\ ~(runner.cluster_mode /\ AxisValue(c, 6) \in {"MSET", "MGET"})
  IN Concat([n \in 1..total |->
               IF kept(n - 1)
               THEN [r \in 1..runner.runs |->
                       <<AxisValue(n - 1, 1), AxisValue(n - 1, 2),
                         AxisValue(n - 1, 3), AxisValue(n - 1, 4),
                         AxisValue(n - 1, 5), AxisValue(n - 1, 6), r - 1>>]
               ELSE <<>>])

FlatKey(unit) ==
  <<unit.requests, unit.keyspacelen, unit.data_size, unit.pipeline,
    unit.clients, unit.command, unit.run_num>>

\* C12: in flat mode the units yielded are, in the order of the product
\* (requests outermost, command innermost), `runs` consecutive units for
\* each combination whose command is a supported primitive and is not
\* MSET/MGET under cluster mode, and nothing else; a configuration whose
\* only command is MSET yields nothing under cluster mode.
C12_FlatOrder ==
  (it_pc /= "idle" /\ ~runner.uses_test_groups) =>
    /\ LET expected == ExpectedFlat
       IN /\ IsPrefixOrAll(expected)
          /\ \A k \in DOMAIN it_yielded :
               /\ it_yielded[k].format = "simple"
               /\ FlatKey(it_yielded[k]) = expected[k]
    /\ (runner.cluster_mode /\ runner.config.commands = <<"MSET">>) =>
         it_yielded = <<>>

\* Two request counts, two client counts, a skipped and a kept command,
\* two runs: all eight units were yielded.
C12_Witness ==
  /\ it_pc = "exhausted" /\ ~runner.uses_test_groups
  /\ runner.cluster_mode /\ runner.runs = 2
  /\ runner.config.commands = <<"MSET", "GET">>
  /\ Len(runner.config.requests) = 2 /\ Len(runner.config.clients) = 2
  /\ Len(it_yielded) = 8
  /\ it_yielded[2].run_num = 1
  /\ it_yielded[3].clients = 100 /\ it_yielded[3].requests = Just(1000)
  /\ it_yielded[5].requests = Just(2000)

KeptVariants(scenario) ==
  LET variants == ExpandScenarioOptions(scenario)
      filter == runner.config.scenario_filter
      Kept(v) == filter = {} \/ v.id \in filter
  IN SelectSeq(variants, Kept)

\* The (group id, variant) pairs a grouped configuration is to yield.
ExpectedGrouped ==
  LET test_groups == runner.config.test_groups
      filter == runner.config.groups_to_run
      skipped(g) ==
        /\ filter /= {}
        /\ \A id \in filter : test_groups[g].group /= Just(id)
  IN Concat([g \in DOMAIN test_groups |->
               IF skipped(g) THEN <<>>
               ELSE Concat([s \in DOMAIN test_groups[g].scenarios |->
                      LET kept == KeptVariants(test_groups[g].scenarios[s])
                      IN [v \in DOMAIN kept |->
                            <<test_groups[g].group, kept[v]>>]])])

\* C13: in grouped mode the units yielded follow the configuration: groups
\* in order, a group left out when a group filter is active and does not
\* hold its id; within a group the scenarios in order, and for a scenario
\* its variants in fan-out order, a variant yielded exactly when no
\* scenario filter is active or the variant's own id is in the filter.
C13_GroupedOrder ==
  (it_pc /= "idle" /\ runner.uses_test_groups) =>
    LET expected == ExpectedGrouped
    IN /\ IsPrefixOrAll(expected)
       /\ \A k \in DOMAIN it_yielded :
            /\ it_yielded[k].format = "test_groups"
            /\ <<it_yielded[k].group_id, it_yielded[k].scenario>>
                 = expected[k]

\* Group 2 is filtered out; of group 1 only the variant "s1_x" is in the
\* scenario filter although the scenario's id is "s1".
C13_Witness ==
  /\ it_pc = "exhausted" /\ runner.uses_test_groups
  /\ runner.config.groups_to_run = {1}
  /\ runner.config.scenario_filter = {"s1_x"}
  /\ Len(runner.config.test_groups) = 2
  /\ runner.config.test_groups[1].group = Just(2)
  /\ Len(runner.config.test_groups[1].scenarios) = 1
  /\ runner.config.test_groups[2].group = Just(1)
  /\ Len(runner.config.test_groups[2].scenarios) = 2
  /\ Len(it_yielded) = 1
  /\ it_yielded[1].scenario.id = "s1_x"
  /\ it_yielded[1].group_id = Just(1)

\* C14: a flat unit is tagged as needing population only if its command
\* has a registered write-equivalent.
C14_TaggedOnlyIfMapped ==
  \A k \in DOMAIN it_yielded :
    (it_yielded[k].format = "simple" /\ it_yielded[k].needs_population) =>
      ReadPopulateMap(it_yielded[k].command) /= NoText

(***************************************************************************)
(* Claims about utils/cpu_utils.py and CPU validation (SpecCpu).           *)
(***************************************************************************)
CpuCalled(op) == fn_pc /= "idle" /\ fn_pc /= "call" /\ fn_call.op = op

Single(n) == [pair |-> FALSE, lo |-> n, hi |-> n]
Pair(lo, hi) == [pair |-> TRUE, lo |-> lo, hi |-> hi]

\* Lists of atoms written with the numbers -1, 0, 1, 10 and 11.
AtomLists ==
  LET numbers == {0 - 1, 0, 1, 10, 11}
      singles == { Single(n) : n \in numbers }
      atoms == singles \cup { Pair(lo, hi) : lo \in numbers, hi \in numbers }
  IN UNION { [1..n -> atoms] : n \in 1..2 } \cup [1..3 -> singles]

RenderAtom(atom) ==
  IF atom.pair THEN StrOfInt(atom.lo) \o <<"-">> \o StrOfInt(atom.hi)
  ELSE StrOfInt(atom.lo)

RECURSIVE RenderAtoms(_)
RenderAtoms(atoms) ==
  IF Len(atoms) = 1 THEN RenderAtom(atoms[1])
  ELSE RenderAtom(Head(atoms)) \o <<",">> \o RenderAtoms(Tail(atoms))

DenotedCores(atoms) ==
  Concat([k \in DOMAIN atoms |->
            [i \in 1..(atoms[k].hi - atoms[k].lo + 1) |-> atoms[k].lo + i - 1]])

\* What each list is written as, whether it is well-formed, and its cores.
WrittenForms ==
  { [text |-> RenderAtoms(atoms),
     valid |-> \A k \in DOMAIN atoms :
                 atoms[k].lo >= 0 /\ atoms[k].hi >= 0
                 /\ atoms[k].lo <= atoms[k].hi,
     cores |-> DenotedCores(atoms)] : atoms \in AtomLists }

IsFormatError(ret) ==
  /\ ~ret.ok
  /\ ret.error \in {ErrCoreEmpty, ErrCoreComma, ErrCoreCommas, ErrCoreNoPart,
                    ErrCoreRangeFormat, ErrCoreRangeValues, ErrCoreFormat}

\* C21: parse_core_range returns, in order, the cores of a comma-separated
\* list of non-negative integers and inclusive start-end pairs with
\* start <= end; it fails with a ValueError on the empty string, a leading,
\* trailing or doubled comma, an atom holding a letter, a reversed pair and
\* a negative number.
C21_ParseCoreRange ==
  CpuCalled("parse_core_range") =>
    LET range_str == fn_call.arg
        ret == fn_rets[1]
    IN /\ \A form \in WrittenForms :
            form.text = range_str =>
              IF form.valid THEN ret.ok /\ ret.cores = form.cores
              ELSE IsFormatError(ret)
       /\ ( \/ range_str = <<>>
            \/ \E i \in DOMAIN range_str :
                 /\ range_str[i] = ","
                 /\ i = 1 \/ i = Len(range_str) \/ range_str[i - 1] = ","
            \/ \E i \in DOMAIN range_str : range_str[i] = "a" )
          => IsFormatError(ret)

\* "0-1,1" was parsed.
C21_Witness ==
  /\ CpuCalled("parse_core_range")
  /\ fn_call.arg = <<"0", "-", "1", ",", "1">>
  /\ fn_rets[1].ok
  /\ fn_rets[1].cores = <<0, 1, 1>>

\* C22: for count >= 1, cores_per_unit >= 1 and offset >= 0,
\* calculate_cpu_ranges returns count ranges that parse to cores_per_unit
\* cores each, are pairwise disjoint, and list in increasing order exactly
\* the cores offset .. offset + count * cores_per_unit - 1.
C22_ContiguousBlocks ==
  CpuCalled("calculate_cpu_ranges") =>
    LET a == fn_call.arg
        ranges == fn_rets[1]
        parsed == [i \in DOMAIN ranges |-> parse_core_range(ranges[i])]
    IN /\ Len(ranges) = a.cluster_nodes
       /\ \A i \in DOMAIN ranges :
            parsed[i].ok /\ Len(parsed[i].cores) = a.cores_per_unit
       /\ \A i, j \in DOMAIN ranges :
            i /= j => SetOf(parsed[i].cores) \cap SetOf(parsed[j].cores) = {}
       /\ Concat([i \in DOMAIN ranges |-> parsed[i].cores])
            = [k \in 1..(a.cluster_nodes * a.cores_per_unit) |->
                 a.offset + k - 1]

\* Two blocks of four cores from core 8 on: "8-11" and "12-15".
C22_Witness ==
  /\ CpuCalled("calculate_cpu_ranges")
  /\ fn_call.arg = [cluster_nodes |-> 2, cores_per_unit |-> 4, offset |-> 8]
  /\ fn_rets[1] = << <<"8", "-", "1", "1">>, <<"1", "2", "-", "1", "5">> >>

RECURSIVE CoresOfRanges(_)
CoresOfRanges(ranges) ==
  IF ranges = <<>> THEN {}
  ELSE SetOf(parse_core_range(Head(ranges)).cores)
         \cup CoresOfRanges(Tail(ranges))

\* C23: no run is launched with server cores and client cores that overlap,
\* whether they come from server_cpu_range/client_cpu_range or from the
\* lists under cpu_allocation.
C23_OverlapRejected ==
  fn_pc = "launched" =>
    CoresOfRanges(fn_rets[2].server_cpu_ranges)
      \cap CoresOfRanges(fn_rets[2].client_cpu_ranges) = {}

(***************************************************************************)
(* Claims about deep_merge (SpecMerge).                                    *)
(***************************************************************************)
\* The merge of two trees as C24 words it.
RECURSIVE ExpectedMerge(_, _)
ExpectedMerge(base, override) ==
  Tree([k \in SetOf(MergeKeys) |->
          IF override.items[k].kind = "absent" THEN base.items[k]
          ELSE IF override.items[k].kind = "map" /\ base.items[k].kind = "map"
               THEN ExpectedMerge(base.items[k], override.items[k])
               ELSE override.items[k]])

\* C24: deep_merge(base, override) returns a new map in which a key of
\* override whose value, or whose counterpart in base, is not a map has
\* override's value, a key whose values are maps on both sides has their
\* merge, and a key only in base has base's value; base and override are
\* as they were before the call.
C24_DeepMerge ==
  exp_pc = "merged" =>
    /\ TreeAt(exp_heap, exp_ret[1])
         = ExpectedMerge(exp_in.base_value, exp_in.override_value)
    /\ exp_ret[1] \notin {exp_in.base, exp_in.override}
    /\ TreeAt(exp_heap, exp_in.base) = exp_in.base_value
    /\ TreeAt(exp_heap, exp_in.override) = exp_in.override_value

\* Key "a" holds maps on both sides, which differ; key "b" is replaced by a
\* scalar of override.
C24_Witness ==
  /\ exp_pc = "merged"
  /\ exp_in.base_value.items["a"].kind = "map"
  /\ exp_in.base_value.items["a"].items["a"] = Scalar(1)
  /\ exp_in.base_value.items["a"].items["b"] = Scalar(1)
  /\ exp_in.override_value.items["a"].kind = "map"
  /\ exp_in.override_value.items["a"].items["a"] = Scalar(4)
  /\ exp_in.override_value.items["a"].items["b"] = AbsentKey
  /\ exp_in.base_value.items["b"].kind = "map"
  /\ exp_in.override_value.items["b"] = Scalar(3)
  /\ TreeAt(exp_heap, exp_ret[1]).items["a"].items
       = [k \in SetOf(MergeKeys) |-> IF k = "a" THEN Scalar(4) ELSE Scalar(1)]
  /\ TreeAt(exp_heap, exp_ret[1]).items["b"] = Scalar(3)

(***************************************************************************)
(* Claims about the metrics sink (SpecSink).                               *)
(***************************************************************************)
\* C25: after write(records) the persisted array is the array persisted
\* before followed by records, a missing, empty, corrupt or non-list file
\* counting as the empty array; the write does not fail because of what the
\* file holds.
C25_AppendTolerant ==
  sink_last.count > 0 =>
    /\ sink_last.raised = NoText
    /\ metrics_file =
         JsonList((IF sink_last.before.kind = "list"
                   THEN sink_last.before.list ELSE <<>>) \o sink_last.records)

(***************************************************************************)
(* Claims about the validation of a configuration (SpecConfig).            *)
(***************************************************************************)
\* C26: a configuration is accepted only if exactly one of the flat shape
\* (commands) and the grouped shape (test_groups) is present; with both or
\* with neither it is rejected before the core runs.
C26_ExactlyOneShape ==
  fn_pc \in {"loaded", "running"} =>
    (In(fn_call, "commands") /= In(fn_call, "test_groups"))

(***************************************************************************)
(* Claims about the executor of a grouped unit (SpecUnit).                 *)
(***************************************************************************)
PhaseRank(step) ==
  CASE step = "flush" -> 1
    [] step = "setup" -> 2
    [] step = "warmup" -> 3
    [] step = "profile_start" -> 4
    [] step = "measure" -> 5
    [] step = "profile_stop" -> 6
    [] step = "parse" -> 7

InUnit == unit_pc \notin {"start", "ready"}

Made(step) == \E i \in DOMAIN unit_trace : unit_trace[i].step = step

SetupMade ==
  SelectSeq(unit_trace, LAMBDA event : event.step = "setup")

\* The steps made so far are in the order of the phases, a step other than
\* a setup command is made at most once, the setup commands are made in the
\* order of the list, and a step that is conditional is made only under its
\* condition.
StepsInOrder ==
  /\ \A i, j \in DOMAIN unit_trace :
       i < j =>
         /\ PhaseRank(unit_trace[i].step) <= PhaseRank(unit_trace[j].step)
         /\ PhaseRank(unit_trace[i].step) = PhaseRank(unit_trace[j].step)
              => unit_trace[i].step = "setup"
  /\ Len(SetupMade) <= Len(unit_in.scenario.setup_commands)
  /\ \A k \in DOMAIN SetupMade :
       SetupMade[k].detail = unit_in.scenario.setup_commands[k]
  /\ Made("flush") => unit_in.scenario.flush_before
  /\ Made("warmup") => unit_in.scenario.warmup > 0
  /\ Made("measure") =>
       /\ Made("flush") = unit_in.scenario.flush_before
       /\ Len(SetupMade) = Len(unit_in.scenario.setup_commands)
       /\ Made("warmup") = (unit_in.scenario.warmup > 0)
       /\ \A i \in DOMAIN unit_trace :
            unit_trace[i].step \in {"flush", "setup", "warmup", "profile_start"}
              => unit_trace[i].ok
       /\ unit_trace[CHOOSE i \in DOMAIN unit_trace :
                       unit_trace[i].step = "measure"].detail
            = Path(unit_in.scenario)

\* The outcome of a returned call: "success", "failed" or "nothing".
OutcomeOf(out) == IF out.ret.some THEN out.ret.rec.status ELSE "nothing"

Ended == unit_pc \in {"returned", "raised"}

\* C27: the steps of a unit are made in the order flush, setup commands in
\* list order, warmup, profiler start, measured invocation, profiler stop,
\* parsing, each conditional step skipped or made once, and every unit ends
\* with exactly one terminal outcome: a success record, nothing or a failure
\* marker.
C27_OrderedThenOutcome ==
  InUnit =>
    /\ StepsInOrder
    /\ Ended =>
         /\ unit_out.raised = NoText
         /\ OutcomeOf(unit_out) \in {"success", "nothing", "failed"}

\* C27, amended: the steps of a unit are made in that order; a call that
\* returns has exactly one terminal outcome, a success record only after a
\* measured invocation and a parsing that did not fail; a flush or a setup
\* command that fails ends the call with its exception, with no outcome and
\* no later step.
C27_OrderedOutcomeOrRaise ==
  InUnit =>
    /\ StepsInOrder
    /\ unit_pc = "returned" =>
         /\ unit_out.raised = NoText
         /\ OutcomeOf(unit_out) \in {"success", "nothing", "failed"}
         /\ OutcomeOf(unit_out) = "success" =>
              /\ Made("measure") /\ Made("parse")
              /\ \A i \in DOMAIN unit_trace : unit_trace[i].ok
    /\ unit_pc = "raised" =>
         /\ unit_out.raised \in {ErrFlush, ErrSetup}
         /\ ~unit_out.ret.some
         /\ unit_trace /= <<>>
         /\ LET failed == unit_trace[Len(unit_trace)]
            IN /\ ~failed.ok
               /\ failed.step \in {"flush", "setup"}
               /\ (failed.step = "flush") = (unit_out.raised = ErrFlush)
         /\ \A i \in 1..(Len(unit_trace) - 1) : unit_trace[i].ok

\* A unit that made every step a run with a sink can make, and succeeded.
C27_Witness ==
  /\ unit_pc = "returned"
  /\ OutcomeOf(unit_out) = "success"
  /\ Len(unit_trace) = 6
  /\ Len(SetupMade) = 2
  /\ Made("flush") /\ Made("warmup")

\* C28: when the executor has started the profiler for a unit, it has
\* stopped it with the same composite id by the time it returns for that
\* unit, whatever path the measured invocation took and whether or not it
\* raised.
C28_StartedThenStopped ==
  unit_pc = "returned" =>
    \A i \in DOMAIN unit_trace :
      (unit_trace[i].step = "profile_start" /\ unit_trace[i].ok) =>
        \E j \in DOMAIN unit_trace :
          /\ j > i
          /\ unit_trace[j].step = "profile_stop"
          /\ unit_trace[j].detail = unit_trace[i].detail

\* C29: by the measured invocation the profiler has been started for the
\* unit exactly when the effective profiling set of the scenario (its
\* override merged over the set of the run) has enabled = true.
C29_StartedIffEffective ==
  unit_pc = "measure" =>
    (Made("profile_start") = ScenarioProfilingEnabled(unit_in.scenario))

\* C30: once a run is set up exactly one of the profiler and the sink is
\* constructed, as the profiling set of the run says, and stays so; a unit
\* for which the profiler was started returns no record and no marker.
C30_ProfilerOrSink ==
  unit_pc /= "start" =>
    /\ profiler /= metrics_processor
    /\ profiler = runner.profiling_enabled
    /\ (unit_pc = "returned" /\ Made("profile_start")) => ~unit_out.ret.some

\* The second unit of a run returned after its profiler was started.
C30_Witness ==
  /\ unit_pc = "returned"
  /\ unit_local.calls = 2
  /\ \E i \in DOMAIN unit_trace :
       unit_trace[i].step = "profile_start" /\ unit_trace[i].ok
  /\ Made("measure")
  /\ ~unit_out.ret.some

\* The place in the trace of the setup command that failed, 0 if none did.
FailedSetup ==
  IF \E i \in DOMAIN unit_trace :
       unit_trace[i].step = "setup" /\ ~unit_trace[i].ok
  THEN CHOOSE i \in DOMAIN unit_trace :
         unit_trace[i].step = "setup" /\ ~unit_trace[i].ok
  ELSE 0

\* C31: when a setup command of a scenario fails, the failure leaves the
\* executor: no record and no marker is returned for the scenario, no later
\* setup command is executed, and neither warmup, profiler start nor the
\* measured invocation runs.
C31_SetupFailurePropagates ==
  FailedSetup /= 0 =>
    /\ unit_pc = "raised"
    /\ unit_out.raised = ErrSetup
    /\ ~unit_out.ret.some
    /\ FailedSetup = Len(unit_trace)
    /\ ~Made("warmup") /\ ~Made("profile_start") /\ ~Made("measure")
    /\ ~Made("profile_stop") /\ ~Made("parse")

\* The first of two setup commands failed in a unit with a warmup.
C31_Witness ==
  /\ FailedSetup /= 0
  /\ Len(SetupMade) = 1
  /\ Len(unit_in.scenario.setup_commands) = 2
  /\ unit_in.scenario.warmup > 0
  /\ metrics_processor

\* The measured invocation of the unit returned on the single path, its
\* output has no row, and nothing raised inside the try block.
NoDataCase ==
  /\ Ended
  /\ \E i \in DOMAIN unit_trace :
       unit_trace[i].step = "measure" /\ unit_trace[i].ok
  /\ unit_local.has_proc
  /\ ~ParseCsvRow(unit_local.stdout).found
  /\ unit_local.phase = "none"

\* C32: when the measured invocation of a grouped unit succeeds and its
\* output has no parseable row, the executor returns nothing (no record and
\* no marker), does not raise, and the loop can go on to the next unit.
C32_NoData ==
  NoDataCase =>
    /\ unit_pc = "returned"
    /\ unit_out.raised = NoText
    /\ ~unit_out.ret.some
    /\ ENABLED NextIteration

\* A run with a sink parsed an output that has no header line.
C32_Witness ==
  /\ NoDataCase
  /\ metrics_processor
  /\ Made("parse")
  /\ unit_local.stdout = <<TextLine>>

(***************************************************************************)
(* Claims about the executor of a flat unit (SpecFlat).                    *)
(***************************************************************************)
FlatRank(step) ==
  CASE step \in {"restart", "flush"} -> 1
    [] step = "populate_start" -> 2
    [] step = "populate_end" -> 3
    [] step = "measure_start" -> 4
    [] step = "measure_end" -> 5

\* The event of a step that was made.
EventOf(step) ==
  unit_trace[CHOOSE i \in DOMAIN unit_trace : unit_trace[i].step = step]

MadeOk(step) ==
  \E i \in DOMAIN unit_trace : unit_trace[i].step = step /\ unit_trace[i].ok

\* The argument after the last occurrence of a flag in an argument vector
\* (taskset has a -c of its own before the executable), NoText without it.
FlagValue(argv, flag) ==
  LET at == { i \in 1..(Len(argv) - 1) : argv[i] = flag }
  IN IF at = {} THEN NoText
     ELSE argv[(CHOOSE i \in at : \A j \in at : j <= i) + 1]

HasFlag(argv, flag) == \E i \in DOMAIN argv : argv[i] = flag

\* C33: in a flat unit the restart (with a launcher) or else the flush is
\* over before a population run starts, and the population run is over
\* before the measured run starts; there is a population run exactly when
\* the command has a write equivalent; it runs that write command with the
\* keyspace length, data size, pipeline, clients and seed of the unit, and
\* it carries the sequential flag while the measured run does not.
C33_FlatOrder ==
  /\ \A i, j \in DOMAIN unit_trace :
       i < j => FlatRank(unit_trace[i].step) < FlatRank(unit_trace[j].step)
  /\ Made("restart") => runner.server_launcher
  /\ Made("flush") => ~runner.server_launcher
  /\ Made("populate_start") => MadeOk("restart") \/ MadeOk("flush")
  /\ Made("measure_start") =>
       /\ MadeOk("restart") \/ MadeOk("flush")
       /\ Made("populate_start") = (ReadPopulateMap(unit_in.command) /= NoText)
       /\ Made("populate_start") => MadeOk("populate_end")
       /\ unit_local.running \in {<<>>, <<EventOf("measure_start").detail>>}
  /\ Made("populate_start") =>
       LET argv == EventOf("populate_start").detail
       IN /\ FlagValue(argv, "-t") = ReadPopulateMap(unit_in.command)
          /\ FlagValue(argv, "-r") = Str(unit_in.keyspacelen)
          /\ FlagValue(argv, "-d") = Str(unit_in.data_size)
          /\ FlagValue(argv, "-P") = Str(unit_in.pipeline)
          /\ FlagValue(argv, "-c") = Str(unit_in.clients)
          /\ HasFlag(argv, "--sequential")
          /\ ~runner.seed_disabled =>
               FlagValue(argv, "--seed") = Str(unit_in.seed)
  /\ Made("measure_start") =>
       LET argv == EventOf("measure_start").detail
       IN /\ FlagValue(argv, "-t") = unit_in.command
          /\ ~HasFlag(argv, "--sequential")
          /\ Made("populate_start") =>
               FlagValue(argv, "--seed")
                 = FlagValue(EventOf("populate_start").detail, "--seed")

\* A unit of a read command was populated and then measured to its end,
\* after a restart, with the seed passed on.
C33_Witness ==
  /\ unit_pc = "returned"
  /\ unit_in.command = "LRANGE"
  /\ MadeOk("restart")
  /\ MadeOk("populate_end")
  /\ MadeOk("measure_end")
  /\ ~runner.seed_disabled
  /\ unit_out.ret.some

(***************************************************************************)
(* Claims about the cluster flag of the command builder (SpecFn).          *)
(***************************************************************************)
\* C34: in scenario mode the builder adds the cluster flag only when the
\* scenario executes as "single" and the topology is a cluster of more than
\* one node; never for a single-node topology or a parallel scenario.
C34_ClusterFlag ==
  (fn_call /= <<>> /\ fn_call.op = "_build_benchmark_command"
     /\ fn_call.arg.has_scenario) =>
    \A i \in DOMAIN fn_rets :
      HasFlag(fn_rets[i], "--cluster") =>
        /\ fn_call.arg.scenario.cluster_execution = "single"
        /\ IsCme

(***************************************************************************)
(* Claims about the readiness polls (SpecPoll).                            *)
(***************************************************************************)
\* C35: every readiness poll ends within its timeout (and the one sleep and
\* attempt that may be under way when it expires), returns only when the
\* target has answered ready, and raises when the target did not answer
\* ready within the timeout.
C35_PollReadyOrRaise ==
  /\ fn_rets.elapsed <= fn_call.timeout + SleepTicks(fn_call.kind) + 1
  /\ fn_pc = "returned" => fn_rets.answered
  /\ (fn_pc /= "poll" /\ ~fn_rets.answered) => fn_pc = "raised"

(***************************************************************************)
(* Claims about the profiler's worker thread (SpecProf).                   *)
(***************************************************************************)
\* Positions of stop_profiling at which it uses the perf process handle or
\* generates the reports.
InStopAfterJoin == unit_pc \in {"poll", "communicate", "report"}

\* C36: while stop_profiling polls, signals or collects the perf process
\* or generates reports, no worker thread is alive: the worker and
\* stop_profiling never use the handle concurrently.
C36_NoWorkerDuringStop ==
  InStopAfterJoin => \A t \in Threads : ~Alive(t)

(***************************************************************************)
(* Claims about the units of one run (SpecOverlap).                        *)
(***************************************************************************)
\* C37: when the executor begins the next unit, no client process launched
\* for the unit before it is still running, also when that unit failed.
C37_NoClientLeftRunning ==
  par_pc = "next_unit" =>
    \A i \in DOMAIN processes : processes[i].state /= "running"

(***************************************************************************)
(* Claims about the records of one run (Spec).                             *)
(***************************************************************************)
\* The batch handed to the sink last holds every record collected.
HandedToSink == written /= <<>> /\ written[Len(written)] = metric_json

\* run_benchmark_config returned, or an exception left it.
RunOver == run_pc \in {"done", "raised"}

\* C38: every record the executor returned during a run has been handed to
\* the sink's batch write when the run is over, whatever the units after
\* it did.
C38_RecordsReachSink == (RunOver /\ metric_json /= <<>>) => HandedToSink

(***************************************************************************)
(* Claims about the launcher's tracked nodes (SpecLauncher).               *)
(***************************************************************************)
\* C39: after any sequence of launch and shutdown calls the tracked list
\* holds exactly one entry per node of the multi-node cluster that runs, and
\* no entry when no such cluster runs.
C39_TrackedNodesAreRunning ==
  IF fn_rets.launched = "cluster"
  THEN /\ PortSet(fn_rets.cluster_nodes) = fn_rets.running
       /\ Len(fn_rets.cluster_nodes) = Cardinality(fn_rets.running)
  ELSE fn_rets.cluster_nodes = <<>>

(***************************************************************************)
(* Claims about the profiler's delays (SpecDelays).                        *)
(***************************************************************************)
\* C40: a scenario without a profiling override is profiled with the
\* settings of the ambient profiling set, whatever overrides the scenarios
\* before it carried, and the ambient set is what it was when the run began.
C40_OverrideIsLocal ==
  /\ exp_heap.current_profiling_set = exp_in
  /\ \A i \in DOMAIN exp_ret :
       (exp_ret[i].started /\ ~exp_ret[i].override.some) =>
         exp_ret[i].settings =
           WorkerSettings(InitialDelays(exp_in), exp_ret[i].type)

====
